---- MODULE Spec2Model ----
(***************************************************************************)
(* Model of the content-adaptation core of marketgenius: the four platform *)
(* adapters (Facebook, Instagram, LinkedIn, YouTube), their boundary-aware *)
(* truncation and their hashtag reconciliation.                            *)
(*                                                                         *)
(* A text is a sequence of characters; a character is a one-element string *)
(* atom ("a", " ", "#", "\n", ...).  An optional value is None or Some(v).  *)
(***************************************************************************)
EXTENDS Integers, Sequences, FiniteSets, TLC

VARIABLES
    op,         \* which entry point has run: "none" before the call
    platform,   \* the adapter the call went to ("none" before the call)
    in_text,    \* text argument of _truncate_text / _adapt_hashtags
    in_max,     \* max_length argument of _truncate_text
    in_tags,    \* existing_hashtags argument of _adapt_hashtags
    in_title,   \* title argument of _extract_tags
    out,        \* value returned by the helper call
    item,       \* the caller's ContentItem, as it is in the heap
    result,     \* value returned by adapt_content (or the raised exception)
    raw_content,      \* generate_content: the dictionary extracted from the chat
    platforms,        \* generate_content: content_request["platforms"]
    adapted_content,  \* generate_content: the map being filled by the loop
    position,         \* generate_content: number of loop iterations done
    kwargs,           \* ContentItem(...): the keyword arguments of the call
    constructed,      \* ContentItem(...): the object built, or the error raised
    brand_model,      \* BrandVoiceKeeper.brand_model
    language_model,   \* BrandVoiceKeeper.language_model
    in_content,       \* check_consistency: the text being scored
    report,           \* check_consistency: the dictionary returned
    frame,            \* check_consistency: the locals of a call in progress
    brand_models,     \* BrandLanguageModel.brand_models: the cache
    files,            \* the files of BrandLanguageModel.models_dir
    call              \* the most recent call on the BrandLanguageModel

\* the variables of the helper calls and of adapt_content
adapterVars == <<platform, in_text, in_max, in_tags, in_title, out, item, result>>
\* the variables of ContentGenerationPipeline.generate_content
pipelineVars == <<raw_content, platforms, adapted_content, position>>
\* the variables of the ContentItem constructor
schemaVars == <<kwargs, constructed>>
\* the variables of BrandVoiceKeeper.check_consistency
scorerVars == <<brand_model, language_model, in_content, report, frame>>

\* the variables of BrandLanguageModel
modelerVars == <<brand_models, files, call>>

vars == <<op, adapterVars, pipelineVars, schemaVars, scorerVars, modelerVars>>

\* Optional[T]: None is the empty tuple, a present value v is <<v>>
None == <<>>
Some(v) == <<v>>
IsNone(o) == Len(o) = 0
Get(o) == o[1]

\* the placeholder of a variable that holds nothing yet
Unset == "unset"

\* the variables of the other entry points hold nothing
NoPipeline ==
    /\ raw_content = Unset
    /\ platforms = Unset
    /\ adapted_content = Unset
    /\ position = 0
NoSchema == kwargs = Unset /\ constructed = Unset
NoScorer ==
    /\ brand_model = Unset
    /\ language_model = Unset
    /\ in_content = Unset
    /\ report = Unset
    /\ frame = Unset
NoModeler ==
    /\ brand_models = Unset
    /\ files = Unset
    /\ call = Unset

(***************************************************************************)
(* Python string primitives                                                *)
(***************************************************************************)
SetMax(S) == CHOOSE x \in S : \A y \in S : y <= x
SetMin(S) == CHOOSE x \in S : \A y \in S : x <= y

\* str.isspace() for the characters of the model
IsSpace(c) == c \in {" ", "\n", "\t"}

\* the regular expression class \w
IsWordChar(c) ==
    c \in {"a", "b", "c", "d", "e", "f", "g", "h", "i", "j", "k", "l", "m",
           "n", "o", "p", "q", "r", "s", "t", "u", "v", "w", "x", "y", "z",
           "A", "B", "C", "D", "E", "F", "G", "H", "I", "J", "K", "L", "M",
           "N", "O", "P", "Q", "R", "S", "T", "U", "V", "W", "X", "Y", "Z",
           "0", "1", "2", "3", "4", "5", "6", "7", "8", "9", "_"}

\* s[:n], Python's clamping and its negative index included
Prefix(s, n) ==
    IF n >= 0
    THEN SubSeq(s, 1, IF n < Len(s) THEN n ELSE Len(s))
    ELSE SubSeq(s, 1, IF Len(s) + n > 0 THEN Len(s) + n ELSE 0)

\* sub in s
Contains(s, sub) ==
    \E i \in 0..(Len(s) - Len(sub)) : SubSeq(s, i + 1, i + Len(sub)) = sub

\* s.rfind(sub): the highest 0-based index at which sub starts, or -1
RFind(s, sub) ==
    LET at == {i \in 0..(Len(s) - Len(sub)) : SubSeq(s, i + 1, i + Len(sub)) = sub}
    IN  IF at = {} THEN -1 ELSE SetMax(at)

\* s.strip()
Strip(s) ==
    LET keep == {i \in 1..Len(s) : ~IsSpace(s[i])}
    IN  IF keep = {} THEN <<>> ELSE SubSeq(s, SetMin(keep), SetMax(keep))

\* max(a, b, c)
Max3(a, b, c) == SetMax({a, b, c})

(***************************************************************************)
(* Continuation markers                                                    *)
(***************************************************************************)
Ellipsis == <<".", ".", ".">>

\* "...\n\n(" + nine CJK characters + ")": each CJK character is one atom
LI_Marker ==
    <<".", ".", ".", "\n", "\n", "(",
      "u5168", "u6587", "u8acb", "u53c3", "u898b", "u5b8c", "u6574", "u6587", "u7ae0",
      ")">>

\* the sentence branch of LinkedIn puts a space before the marker
LI_SentenceMarker == <<" ">> \o LI_Marker

\* last > max_length * 0.7 ; the float product agrees with 10*last > 7*max_length
\* for every max_length below 90 and for every length constant of the adapters
NotTooShort(last, max_length) == 10 * last > 7 * max_length

(***************************************************************************)
(* _truncate_text                                                          *)
(***************************************************************************)
FB_truncate_text_offByOne(text, max_length) ==
    IF Len(text) <= max_length THEN text
    ELSE LET truncated == Prefix(text, max_length + 1)
             last_space == RFind(truncated, <<" ">>)
             cut == IF last_space > 0 THEN Prefix(truncated, last_space) ELSE truncated
         IN  Strip(cut) \o Ellipsis

FB_truncate_text(text, max_length) ==
    IF Len(text) <= max_length THEN text
    ELSE LET truncated == Prefix(text, max_length)
             last_space == RFind(truncated, <<" ">>)
             cut == IF last_space > 0 THEN Prefix(truncated, last_space) ELSE truncated
         IN  Strip(cut) \o Ellipsis

IG_truncate_text(text, max_length) ==
    IF Len(text) <= max_length THEN text
    ELSE LET truncated == Prefix(text, max_length)
             last_space == RFind(truncated, <<" ">>)
             cut == IF last_space > 0 THEN Prefix(truncated, last_space) ELSE truncated
         IN  Strip(cut) \o Ellipsis

LI_truncate_text(text, max_length) ==
    IF Len(text) <= max_length THEN text
    ELSE LET truncated == Prefix(text, max_length)
             last_para == RFind(truncated, <<"\n", "\n">>)
             last_sentence == Max3(RFind(truncated, <<".", " ">>),
                                   RFind(truncated, <<"!", " ">>),
                                   RFind(truncated, <<"?", " ">>))
             last_space == RFind(truncated, <<" ">>)
             cut == IF last_space > 0 THEN Prefix(truncated, last_space) ELSE truncated
         IN  IF /\ Contains(Prefix(text, max_length - 50), <<"\n", "\n">>)
                /\ NotTooShort(last_para, max_length)
             THEN Strip(Prefix(truncated, last_para)) \o LI_Marker
             ELSE IF NotTooShort(last_sentence, max_length)
             THEN Strip(Prefix(truncated, last_sentence + 1)) \o LI_SentenceMarker
             ELSE Strip(cut) \o LI_Marker

YT_truncate_text(text, max_length) ==
    IF Len(text) <= max_length THEN text
    ELSE LET truncated == Prefix(text, max_length)
             last_sentence == Max3(RFind(truncated, <<".", " ">>),
                                   RFind(truncated, <<"!", " ">>),
                                   RFind(truncated, <<"?", " ">>))
             last_space == RFind(truncated, <<" ">>)
             cut == IF last_space > 0 THEN Prefix(truncated, last_space) ELSE truncated
         IN  IF NotTooShort(last_sentence, max_length)
             THEN Strip(Prefix(truncated, last_sentence + 1))
             ELSE Strip(cut) \o Ellipsis

(***************************************************************************)
(* Regular expression #(\w+): re.findall and re.sub                        *)
(***************************************************************************)
RECURSIVE SortedSeq(_)
SortedSeq(S) ==
    IF S = {} THEN <<>> ELSE <<SetMin(S)>> \o SortedSeq(S \ {SetMin(S)})

\* 1-based positions of every "#" that starts a match: "#" is not a word
\* character, so no match can begin inside another one
TagStarts(text) ==
    {i \in 1..(Len(text) - 1) : text[i] = "#" /\ IsWordChar(text[i + 1])}

\* the last position of the greedy match that starts at i: \w+ runs up to
\* the first character that is not a word character
TagEnd(text, i) ==
    LET stops == {j \in (i + 1)..Len(text) : ~IsWordChar(text[j])}
    IN  IF stops = {} THEN Len(text) ELSE SetMin(stops) - 1

\* re.findall(r'#(\w+)', text): the captured groups, left to right
FindAllTags(text) ==
    LET st == SortedSeq(TagStarts(text))
    IN  [k \in 1..Len(st) |-> SubSeq(text, st[k] + 1, TagEnd(text, st[k]))]

\* "".join(ss)
RECURSIVE Flatten(_)
Flatten(ss) == IF ss = <<>> THEN <<>> ELSE ss[1] \o Flatten(Tail(ss))

\* re.sub(r'#(\w+)', '', text): the pieces of the text before, between and
\* after the matches
RemoveTags(text) ==
    LET st == SortedSeq(TagStarts(text))
        From(k) == IF k = 1 THEN 1 ELSE TagEnd(text, st[k - 1]) + 1
        To(k) == IF k > Len(st) THEN Len(text) ELSE st[k] - 1
    IN  Flatten([k \in 1..(Len(st) + 1) |-> SubSeq(text, From(k), To(k))])

InSeq(x, s) == \E i \in 1..Len(s) : s[i] = x

\* an Optional[List] used as a condition: None and [] are false
Truthy(l) == ~IsNone(l) /\ Get(l) # <<>>

\* sep.join(parts)
RECURSIVE Join(_, _)
Join(sep, parts) ==
    IF parts = <<>> THEN <<>>
    ELSE IF Len(parts) = 1 THEN parts[1]
    ELSE parts[1] \o sep \o Join(sep, Tail(parts))

\* "".join(prefix + p for p in parts)
RECURSIVE ConcatPrefixed(_, _)
ConcatPrefixed(prefix, parts) ==
    IF parts = <<>> THEN <<>>
    ELSE prefix \o parts[1] \o ConcatPrefixed(prefix, Tail(parts))

\* [f"#{tag}" for tag in tags]
Hashed(tags) == [k \in 1..Len(tags) |-> <<"#">> \o tags[k]]

(***************************************************************************)
(* _adapt_hashtags                                                         *)
(***************************************************************************)
FB_MAX_HASHTAGS == 5
IG_MAX_HASHTAGS == 30
LI_MAX_HASHTAGS == 10
IG_REFLOW_THRESHOLD == 3

\* all_hashtags with every explicit tag appended, the inline ones too
MergeHashtags_keepAll(text_hashtags, existing_hashtags) ==
    text_hashtags \o (IF Truthy(existing_hashtags) THEN Get(existing_hashtags) ELSE <<>>)

\* all_hashtags after the two extend() calls: the inline tags, then the
\* explicit tags that are not among the inline ones (the comprehension is
\* evaluated before extend() runs, so it only ever sees the inline tags)
MergeHashtags(text_hashtags, existing_hashtags) ==
    text_hashtags \o
        (IF Truthy(existing_hashtags)
         THEN SelectSeq(Get(existing_hashtags), LAMBDA tag : ~InSeq(tag, text_hashtags))
         ELSE <<>>)

\* all_hashtags[-cap:]: the cap keeps the end of the list
CapHashtags_keepTail(all_hashtags, cap) ==
    IF Len(all_hashtags) > cap
    THEN SubSeq(all_hashtags, Len(all_hashtags) - cap + 1, Len(all_hashtags))
    ELSE all_hashtags

\* all_hashtags[:cap] when the cap is exceeded
CapHashtags(all_hashtags, cap) ==
    IF Len(all_hashtags) > cap THEN Prefix(all_hashtags, cap) ELSE all_hashtags

\* len(text_hashtags) >= MAX_HASHTAGS: the text is rewritten at the cap already
FB_adapt_hashtags_reflowAtCap(text, existing_hashtags) ==
    LET text_hashtags == FindAllTags(text)
        all_hashtags == CapHashtags(MergeHashtags(text_hashtags, existing_hashtags),
                                    FB_MAX_HASHTAGS)
    IN  IF Len(text_hashtags) >= FB_MAX_HASHTAGS
        THEN [text |-> Strip(RemoveTags(text))
                          \o ConcatPrefixed(<<" ", "#">>, all_hashtags),
              tags |-> all_hashtags]
        ELSE [text |-> text, tags |-> all_hashtags]

FB_adapt_hashtags(text, existing_hashtags) ==
    LET text_hashtags == FindAllTags(text)
        all_hashtags == CapHashtags(MergeHashtags(text_hashtags, existing_hashtags),
                                    FB_MAX_HASHTAGS)
    IN  IF Len(text_hashtags) > FB_MAX_HASHTAGS
        THEN [text |-> Strip(RemoveTags(text))
                          \o ConcatPrefixed(<<" ", "#">>, all_hashtags),
              tags |-> all_hashtags]
        ELSE [text |-> text, tags |-> all_hashtags]

\* the tag block joined to the body by "\n" instead of "\n\n"
IG_adapt_hashtags_noBlankLine(text, existing_hashtags) ==
    LET text_hashtags == FindAllTags(text)
        all_hashtags == CapHashtags(MergeHashtags(text_hashtags, existing_hashtags),
                                    IG_MAX_HASHTAGS)
        text_without_hashtags == Strip(RemoveTags(text))
        hashtag_text == Join(<<" ">>, Hashed(all_hashtags))
    IN  IF Len(text_hashtags) > IG_REFLOW_THRESHOLD
        THEN [text |-> IF text_without_hashtags # <<>> /\ hashtag_text # <<>>
                       THEN text_without_hashtags \o <<"\n">> \o hashtag_text
                       ELSE text_without_hashtags \o hashtag_text,
              tags |-> all_hashtags]
        ELSE [text |-> text, tags |-> all_hashtags]

\* len(text_hashtags) >= 3: the reflow starts at the threshold already
IG_adapt_hashtags_reflowAtThreshold(text, existing_hashtags) ==
    LET text_hashtags == FindAllTags(text)
        all_hashtags == CapHashtags(MergeHashtags(text_hashtags, existing_hashtags),
                                    IG_MAX_HASHTAGS)
        text_without_hashtags == Strip(RemoveTags(text))
        hashtag_text == Join(<<" ">>, Hashed(all_hashtags))
    IN  IF Len(text_hashtags) >= IG_REFLOW_THRESHOLD
        THEN [text |-> IF text_without_hashtags # <<>> /\ hashtag_text # <<>>
                       THEN text_without_hashtags \o <<"\n", "\n">> \o hashtag_text
                       ELSE text_without_hashtags \o hashtag_text,
              tags |-> all_hashtags]
        ELSE [text |-> text, tags |-> all_hashtags]

IG_adapt_hashtags(text, existing_hashtags) ==
    LET text_hashtags == FindAllTags(text)
        all_hashtags == CapHashtags(MergeHashtags(text_hashtags, existing_hashtags),
                                    IG_MAX_HASHTAGS)
        text_without_hashtags == Strip(RemoveTags(text))
        hashtag_text == Join(<<" ">>, Hashed(all_hashtags))
    IN  IF Len(text_hashtags) > IG_REFLOW_THRESHOLD
        THEN [text |-> IF text_without_hashtags # <<>> /\ hashtag_text # <<>>
                       THEN text_without_hashtags \o <<"\n", "\n">> \o hashtag_text
                       ELSE text_without_hashtags \o hashtag_text,
              tags |-> all_hashtags]
        ELSE [text |-> text, tags |-> all_hashtags]

LI_adapt_hashtags(text, existing_hashtags) ==
    LET text_hashtags == FindAllTags(text)
        all_hashtags == CapHashtags(MergeHashtags(text_hashtags, existing_hashtags),
                                    LI_MAX_HASHTAGS)
    IN  [text |-> text, tags |-> all_hashtags]

(***************************************************************************)
(* More string primitives used by the adapters                            *)
(***************************************************************************)
\* len(s.split()): the number of maximal runs of non-whitespace
WordCount(s) ==
    Cardinality({i \in 1..Len(s) : ~IsSpace(s[i]) /\ (i = 1 \/ IsSpace(s[i - 1]))})

\* s.split(): the words themselves
Words(s) ==
    LET starts == SortedSeq({i \in 1..Len(s) :
                                ~IsSpace(s[i]) /\ (i = 1 \/ IsSpace(s[i - 1]))})
        WordEnd(i) == LET stops == {j \in i..Len(s) : IsSpace(s[j])}
                      IN  IF stops = {} THEN Len(s) ELSE SetMin(stops) - 1
    IN  [k \in 1..Len(starts) |-> SubSeq(s, starts[k], WordEnd(starts[k]))]

LowerCase ==
    <<"a", "b", "c", "d", "e", "f", "g", "h", "i", "j", "k", "l", "m",
      "n", "o", "p", "q", "r", "s", "t", "u", "v", "w", "x", "y", "z">>
UpperCase ==
    <<"A", "B", "C", "D", "E", "F", "G", "H", "I", "J", "K", "L", "M",
      "N", "O", "P", "Q", "R", "S", "T", "U", "V", "W", "X", "Y", "Z">>

\* c.upper() and c.lower()
Upper(c) ==
    IF \E k \in 1..Len(LowerCase) : LowerCase[k] = c
    THEN UpperCase[CHOOSE k \in 1..Len(LowerCase) : LowerCase[k] = c] ELSE c
Lower(c) ==
    IF \E k \in 1..Len(UpperCase) : UpperCase[k] = c
    THEN LowerCase[CHOOSE k \in 1..Len(UpperCase) : UpperCase[k] = c] ELSE c

\* s.lower()
LowerStr(s) == [k \in 1..Len(s) |-> Lower(s[k])]

\* re.match(r'^[a-z]', s)
StartsLower(s) == Len(s) > 0 /\ \E k \in 1..Len(LowerCase) : LowerCase[k] = s[1]

\* s.endswith(suffix)
EndsWith(s, suffix) ==
    Len(s) >= Len(suffix) /\ SubSeq(s, Len(s) - Len(suffix) + 1, Len(s)) = suffix

\* any(lower_url.endswith(fmt) for fmt in formats)
HasFormat(image_url, formats) ==
    \E fmt \in formats : EndsWith(LowerStr(image_url), fmt)

\* value or "" for an Optional[str]
OrEmpty(o) == IF IsNone(o) THEN <<>> ELSE Get(o)

\* bool(value) for an Optional[str]
NonEmpty(o) == ~IsNone(o) /\ Get(o) # <<>>

(***************************************************************************)
(* ContentItem and what the adapters do to it                             *)
(*                                                                         *)
(* A ContentItem is a record of brand_id, content_type and the three       *)
(* optional payloads.  An adapter works on content_item.copy(deep=True);   *)
(* a Work record holds the caller's item, the copy, and whether the two    *)
(* share their payload objects (they do not, after a deep copy).           *)
(***************************************************************************)
ContentItem(brand_id, content_type, text_content, image_content, video_content) ==
    [brand_id |-> brand_id, content_type |-> content_type,
     text_content |-> text_content, image_content |-> image_content,
     video_content |-> video_content]

\* content_item.copy(): a new ContentItem whose payloads are the caller's own
\* payload objects
CopyItem_shallow(content_item) ==
    [orig |-> content_item, copy |-> content_item, shared |-> TRUE]

\* content_item.copy(deep=True): a new ContentItem with payloads of its own
CopyItem(content_item) ==
    [orig |-> content_item, copy |-> content_item, shared |-> FALSE]

\* copy.<payload>.<field> = value, for a payload object the copy holds; the
\* write lands in the caller's item as well when the payload object is shared
SetPayloadField(work, payload, fld, value) ==
    LET Written(it) == [it EXCEPT ![payload] = Some([Get(it[payload]) EXCEPT ![fld] = value])]
    IN  [work EXCEPT !.copy = Written(work.copy),
                     !.orig = IF work.shared THEN Written(work.orig) ELSE work.orig]

\* copy.<attribute> = value: rebinding an attribute of the copy itself
SetAttribute(work, attr, value) == [work EXCEPT !.copy[attr] = value]

\* model.dict(): the payload objects turned into dictionaries, field by field
TextDict(t) == [text |-> t.text, hashtags |-> t.hashtags]
ImageDict(i) ==
    [prompt |-> i.prompt, image_url |-> i.image_url, alt_text |-> i.alt_text,
     caption |-> i.caption]
VideoDict(v) ==
    [title |-> v.title, script |-> v.script, description |-> v.description,
     thumbnail_prompt |-> v.thumbnail_prompt, duration_seconds |-> v.duration_seconds]
ItemDict(it) ==
    [brand_id |-> it.brand_id, content_type |-> it.content_type,
     text_content |-> IF IsNone(it.text_content) THEN None
                      ELSE Some(TextDict(Get(it.text_content))),
     image_content |-> IF IsNone(it.image_content) THEN None
                       ELSE Some(ImageDict(Get(it.image_content))),
     video_content |-> IF IsNone(it.video_content) THEN None
                       ELSE Some(VideoDict(Get(it.video_content)))]

\* What a call leaves behind: the caller's item after the call and either the
\* returned dictionary or the exception that reached the caller.
\* {"success": False, "error": ..., "content": content_item.dict()}
FailureResult_noEcho(content_item, error) ==
    [input |-> content_item,
     ret |-> [outcome |-> "returned", success |-> FALSE, error |-> error,
              content |-> ItemDict([content_item EXCEPT !.text_content = None,
                                                        !.image_content = None,
                                                        !.video_content = None]),
              metadata |-> Unset]]

FailureResult(content_item, error) ==
    [input |-> content_item,
     ret |-> [outcome |-> "returned", success |-> FALSE, error |-> error,
              content |-> ItemDict(content_item), metadata |-> Unset]]

\* {"success": True, "content": adapted_content.dict(), "metadata": metadata}
SuccessResult(work, metadata) ==
    [input |-> work.orig,
     ret |-> [outcome |-> "returned", success |-> TRUE, error |-> <<>>,
              content |-> ItemDict(work.copy), metadata |-> metadata]]

\* an exception that leaves the adapter
Raised(input, exception) ==
    [input |-> input,
     ret |-> [outcome |-> "raised", success |-> Unset, error |-> exception,
              content |-> Unset, metadata |-> Unset]]

\* recommendations.append(x) when cond
AddIf(recs, cond, rec) == IF cond THEN Append(recs, rec) ELSE recs

(***************************************************************************)
(* FacebookAdapter                                                         *)
(***************************************************************************)
FB_MAX_POST_LENGTH == 63206
FB_IDEAL_POST_LENGTH == 40
FB_MAX_TITLE_LENGTH == 100
FB_MAX_DESCRIPTION_LENGTH == 5000
FB_ALLOWED_IMAGE_FORMATS ==
    {<<".", "j", "p", "g">>, <<".", "j", "p", "e", "g">>, <<".", "p", "n", "g">>,
     <<".", "g", "i", "f">>}

FB_adapt_text_length(text) ==
    IF Len(text) <= FB_MAX_POST_LENGTH THEN text
    ELSE FB_truncate_text(text, FB_MAX_POST_LENGTH)

\* returns its argument: the mentions it finds are not used
FB_adapt_mentions(text) == text

\* the first component of _check_image_format
FB_check_image_format(image_url) ==
    image_url # <<>> /\ HasFormat(image_url, FB_ALLOWED_IMAGE_FORMATS)

FB_adapt_text_content(content_item) ==
    IF IsNone(content_item.text_content)
    THEN FailureResult(content_item, <<"missing text_content">>)
    ELSE
    LET tc == Get(content_item.text_content)
        original_text == tc.text
        h == FB_adapt_hashtags(FB_adapt_text_length(original_text), tc.hashtags)
        adapted_text == FB_adapt_mentions(h.text)
        hashtags == h.tags
        w1 == SetPayloadField(CopyItem(content_item), "text_content", "text", adapted_text)
        w2 == SetPayloadField(w1, "text_content", "hashtags", Some(hashtags))
        r1 == AddIf(<<>>, WordCount(adapted_text) > FB_IDEAL_POST_LENGTH * 2,
                    <<"shorten post">>)
        r2 == AddIf(r1, Len(hashtags) < 2, <<"add hashtags">>)
    IN  SuccessResult(w2,
            [platform |-> "facebook", content_type |-> "text",
             character_count |-> Len(adapted_text),
             word_count |-> WordCount(adapted_text),
             hashtag_count |-> Len(hashtags),
             is_within_limits |-> Len(adapted_text) <= FB_MAX_POST_LENGTH,
             recommendations |-> r2])

FB_adapt_image_content(content_item) ==
    IF IsNone(content_item.image_content)
    THEN FailureResult(content_item, <<"missing image_content">>)
    ELSE
    LET ic == Get(content_item.image_content)
        caption == OrEmpty(ic.caption)
        h == FB_adapt_hashtags(caption, None)
        adapted_caption == h.text
        image_format_valid ==
            IF NonEmpty(ic.image_url) THEN FB_check_image_format(Get(ic.image_url)) ELSE TRUE
        w1 == SetPayloadField(CopyItem(content_item), "image_content", "caption",
                              Some(adapted_caption))
        r1 == AddIf(<<>>, ~NonEmpty(ic.alt_text), <<"add alt text">>)
        r2 == AddIf(r1, ~image_format_valid, <<"unsupported image format">>)
        r3 == AddIf(r2, caption = <<>>, <<"add caption">>)
    IN  SuccessResult(w1,
            [platform |-> "facebook", content_type |-> "image",
             caption_length |-> Len(adapted_caption),
             image_url |-> ic.image_url,
             alt_text_available |-> NonEmpty(ic.alt_text),
             image_format_valid |-> image_format_valid,
             recommendations |-> r3])

FB_adapt_video_content(content_item) ==
    IF IsNone(content_item.video_content)
    THEN FailureResult(content_item, <<"missing video_content">>)
    ELSE
    LET vc == Get(content_item.video_content)
        original_title == vc.title
        adapted_title == FB_truncate_text(original_title, FB_MAX_TITLE_LENGTH)
        description == OrEmpty(vc.description)
        adapted_description == FB_truncate_text(description, FB_MAX_DESCRIPTION_LENGTH)
        w1 == SetPayloadField(CopyItem(content_item), "video_content", "title", adapted_title)
        w2 == SetPayloadField(w1, "video_content", "description", Some(adapted_description))
        has_duration == ~IsNone(vc.duration_seconds) /\ Get(vc.duration_seconds) # 0
        too_short == has_duration /\ Get(vc.duration_seconds) < 15
        too_long == has_duration /\ ~too_short /\ Get(vc.duration_seconds) > 240
        duration_optimal == ~too_short /\ ~too_long
        r1 == AddIf(AddIf(<<>>, too_short, <<"video too short">>),
                    too_long, <<"video long">>)
        r2 == AddIf(r1, original_title # adapted_title,
                    <<"title shortened", Len(original_title), Len(adapted_title)>>)
        r3 == AddIf(r2, description = <<>>, <<"add description">>)
        r4 == AddIf(r3, ~NonEmpty(vc.thumbnail_prompt), <<"add thumbnail">>)
    IN  SuccessResult(w2,
            [platform |-> "facebook", content_type |-> "video",
             title_length |-> Len(adapted_title),
             description_length |-> Len(adapted_description),
             duration_seconds |-> vc.duration_seconds,
             duration_optimal |-> duration_optimal,
             recommendations |-> r4])

FB_adapt_content(content_item) ==
    IF content_item.content_type = "text" THEN FB_adapt_text_content(content_item)
    ELSE IF content_item.content_type = "image" THEN FB_adapt_image_content(content_item)
    ELSE IF content_item.content_type = "video" THEN FB_adapt_video_content(content_item)
    ELSE FailureResult(content_item, <<"unsupported content type">>)

(***************************************************************************)
(* InstagramAdapter                                                        *)
(***************************************************************************)
IG_MAX_CAPTION_LENGTH == 2200
IG_IDEAL_CAPTION_LENGTH == 150
IG_OPTIMAL_HASHTAGS == 11
IG_MAX_VIDEO_LENGTH_SECONDS == 90
IG_MAX_FEED_VIDEO_SECONDS == 60
IG_ALLOWED_IMAGE_FORMATS ==
    {<<".", "j", "p", "g">>, <<".", "j", "p", "e", "g">>, <<".", "p", "n", "g">>}

IG_adapt_caption_length(caption) ==
    IF Len(caption) <= IG_MAX_CAPTION_LENGTH THEN caption
    ELSE IG_truncate_text(caption, IG_MAX_CAPTION_LENGTH)

\* returns its argument: the mentions it finds are not used
IG_adapt_mentions(text) == text

IG_check_image_format(image_url) ==
    image_url # <<>> /\ HasFormat(image_url, IG_ALLOWED_IMAGE_FORMATS)

\* the synthesized ImageContent of a converted text post
\* (CJK characters are written as one atom each, named by code point)
IG_GenericPrompt ==
    <<"u6839", "u64da", "u5716", "u50cf", "u8aaa", "u660e", "u751f", "u6210", "u5716", "u50cf">>
IG_GenericAltText(brand_id) ==
    <<"u7531", " ">> \o brand_id \o <<" ", "u5275", "u5efa", "u7684", "u5716", "u50cf">>

\* the hashtag advice of the image and video paths
IG_HashtagAdvice(recs, hashtags) ==
    IF hashtags = <<>> THEN Append(recs, <<"add hashtags">>)
    ELSE IF Len(hashtags) < 5 THEN Append(recs, <<"more hashtags">>)
    ELSE recs

\* adapt_to_caption building the ImageContent without its alt_text
IG_adapt_to_caption_noAltText(content_item) ==
    IF IsNone(content_item.text_content)
    THEN FailureResult(content_item, <<"missing text_content">>)
    ELSE
    LET tc == Get(content_item.text_content)
        original_text == tc.text
        h == IG_adapt_hashtags(IG_adapt_caption_length(original_text), tc.hashtags)
        adapted_caption == IG_adapt_mentions(h.text)
        hashtags == h.tags
        w1 == SetAttribute(CopyItem(content_item), "content_type", "image")
        w2 == IF IsNone(w1.copy.image_content)
              THEN SetAttribute(w1, "image_content",
                       Some([prompt |-> IG_GenericPrompt,
                             image_url |-> None,
                             alt_text |-> None,
                             caption |-> Some(adapted_caption)]))
              ELSE SetPayloadField(w1, "image_content", "caption", Some(adapted_caption))
        r1 == AddIf(<<>>, WordCount(adapted_caption) > IG_IDEAL_CAPTION_LENGTH,
                    <<"shorten caption">>)
        r2 == IF hashtags = <<>> THEN Append(r1, <<"add hashtags">>)
              ELSE IF Len(hashtags) < 5 THEN Append(r1, <<"more hashtags">>)
              ELSE IF Len(hashtags) > IG_OPTIMAL_HASHTAGS THEN Append(r1, <<"fewer hashtags">>)
              ELSE r1
    IN  SuccessResult(w2,
            [platform |-> "instagram", content_type |-> "image",
             original_type |-> "text",
             caption_length |-> Len(adapted_caption),
             character_count |-> Len(adapted_caption),
             word_count |-> WordCount(adapted_caption),
             hashtag_count |-> Len(hashtags),
             is_within_limits |-> Len(adapted_caption) <= IG_MAX_CAPTION_LENGTH,
             recommendations |-> r2])

\* InstagramAdapter.adapt_to_caption
IG_adapt_to_caption(content_item) ==
    IF IsNone(content_item.text_content)
    THEN FailureResult(content_item, <<"missing text_content">>)
    ELSE
    LET tc == Get(content_item.text_content)
        original_text == tc.text
        h == IG_adapt_hashtags(IG_adapt_caption_length(original_text), tc.hashtags)
        adapted_caption == IG_adapt_mentions(h.text)
        hashtags == h.tags
        w1 == SetAttribute(CopyItem(content_item), "content_type", "image")
        w2 == IF IsNone(w1.copy.image_content)
              THEN SetAttribute(w1, "image_content",
                       Some([prompt |-> IG_GenericPrompt,
                             image_url |-> None,
                             alt_text |-> Some(IG_GenericAltText(w1.copy.brand_id)),
                             caption |-> Some(adapted_caption)]))
              ELSE SetPayloadField(w1, "image_content", "caption", Some(adapted_caption))
        r1 == AddIf(<<>>, WordCount(adapted_caption) > IG_IDEAL_CAPTION_LENGTH,
                    <<"shorten caption">>)
        r2 == IF hashtags = <<>> THEN Append(r1, <<"add hashtags">>)
              ELSE IF Len(hashtags) < 5 THEN Append(r1, <<"more hashtags">>)
              ELSE IF Len(hashtags) > IG_OPTIMAL_HASHTAGS THEN Append(r1, <<"fewer hashtags">>)
              ELSE r1
    IN  SuccessResult(w2,
            [platform |-> "instagram", content_type |-> "image",
             original_type |-> "text",
             caption_length |-> Len(adapted_caption),
             character_count |-> Len(adapted_caption),
             word_count |-> WordCount(adapted_caption),
             hashtag_count |-> Len(hashtags),
             is_within_limits |-> Len(adapted_caption) <= IG_MAX_CAPTION_LENGTH,
             recommendations |-> r2])

IG_adapt_image_content(content_item) ==
    IF IsNone(content_item.image_content)
    THEN FailureResult(content_item, <<"missing image_content">>)
    ELSE
    LET ic == Get(content_item.image_content)
        caption == OrEmpty(ic.caption)
        h == IG_adapt_hashtags(IG_adapt_caption_length(caption), None)
        adapted_caption == h.text
        hashtags == h.tags
        image_format_valid ==
            IF NonEmpty(ic.image_url) THEN IG_check_image_format(Get(ic.image_url)) ELSE TRUE
        w1 == SetPayloadField(CopyItem(content_item), "image_content", "caption",
                              Some(adapted_caption))
        r1 == AddIf(<<>>, ~NonEmpty(ic.alt_text), <<"add alt text">>)
        r2 == AddIf(r1, ~image_format_valid, <<"unsupported image format">>)
        r3 == AddIf(r2, caption = <<>>, <<"add caption">>)
    IN  SuccessResult(w1,
            [platform |-> "instagram", content_type |-> "image",
             caption_length |-> Len(adapted_caption),
             image_url |-> ic.image_url,
             alt_text_available |-> NonEmpty(ic.alt_text),
             image_format_valid |-> image_format_valid,
             hashtag_count |-> Len(hashtags),
             recommendations |-> IG_HashtagAdvice(r3, hashtags)])

IG_adapt_video_content(content_item) ==
    IF IsNone(content_item.video_content)
    THEN FailureResult(content_item, <<"missing video_content">>)
    ELSE
    LET vc == Get(content_item.video_content)
        description == OrEmpty(vc.description)
        h == IG_adapt_hashtags(IG_adapt_caption_length(description), None)
        adapted_description == h.text
        hashtags == h.tags
        w1 == SetPayloadField(CopyItem(content_item), "video_content", "description",
                              Some(adapted_description))
        has_duration == ~IsNone(vc.duration_seconds) /\ Get(vc.duration_seconds) # 0
        over_reels == has_duration /\ Get(vc.duration_seconds) > IG_MAX_VIDEO_LENGTH_SECONDS
        over_feed == has_duration /\ ~over_reels
                        /\ Get(vc.duration_seconds) > IG_MAX_FEED_VIDEO_SECONDS
        r1 == AddIf(AddIf(<<>>, over_reels, <<"over reels limit">>),
                    over_feed, <<"over feed limit">>)
        r2 == AddIf(r1, ~NonEmpty(vc.thumbnail_prompt), <<"add thumbnail">>)
    IN  \* the metadata compares duration_seconds with MAX_FEED_VIDEO_SECONDS
        \* unguarded: None > 60 is a TypeError
        IF IsNone(vc.duration_seconds)
        THEN Raised(w1.orig, <<"TypeError">>)
        ELSE SuccessResult(w1,
            [platform |-> "instagram", content_type |-> "video",
             video_type |-> IF Get(vc.duration_seconds) > IG_MAX_FEED_VIDEO_SECONDS
                            THEN "reels" ELSE "feed",
             description_length |-> Len(adapted_description),
             duration_seconds |-> vc.duration_seconds,
             duration_valid |-> ~over_reels,
             hashtag_count |-> Len(hashtags),
             recommendations |-> IG_HashtagAdvice(r2, hashtags)])

IG_adapt_content(content_item) ==
    IF content_item.content_type = "text" THEN IG_adapt_to_caption(content_item)
    ELSE IF content_item.content_type = "image" THEN IG_adapt_image_content(content_item)
    ELSE IF content_item.content_type = "video" THEN IG_adapt_video_content(content_item)
    ELSE FailureResult(content_item, <<"unsupported content type">>)

(***************************************************************************)
(* LinkedInAdapter                                                         *)
(***************************************************************************)
LI_MAX_POST_LENGTH == 3000
LI_IDEAL_POST_LENGTH == 200
LI_MAX_ARTICLE_LENGTH == 100000
LI_MAX_TITLE_LENGTH == 150
LI_MAX_DESCRIPTION_LENGTH == 2000
LI_OPTIMAL_HASHTAGS == 5
LI_MAX_VIDEO_LENGTH_SECONDS == 600
LI_IDEAL_VIDEO_LENGTH_SECONDS == 180
LI_ARTICLE_WORDS == 300
LI_ARTICLE_CHARS == 1000
LI_ALLOWED_IMAGE_FORMATS ==
    {<<".", "j", "p", "g">>, <<".", "j", "p", "e", "g">>, <<".", "p", "n", "g">>,
     <<".", "g", "i", "f">>}

LI_adapt_post_length(text) ==
    IF Len(text) <= LI_MAX_POST_LENGTH THEN text
    ELSE LI_truncate_text(text, LI_MAX_POST_LENGTH)

LI_adapt_article_length(text) ==
    IF Len(text) <= LI_MAX_ARTICLE_LENGTH THEN text
    ELSE LI_truncate_text(text, LI_MAX_ARTICLE_LENGTH)

\* the classification by the number of words alone
LI_is_article_wordsOnly(text) == WordCount(text) > LI_ARTICLE_WORDS

\* len(text.split()) > 300 or len(text) > 1000
LI_is_article(text) == WordCount(text) > LI_ARTICLE_WORDS \/ Len(text) > LI_ARTICLE_CHARS

\* returns its argument: the mentions it finds are not used
LI_adapt_mentions(text) == text

LI_check_image_format(image_url) ==
    image_url # <<>> /\ HasFormat(image_url, LI_ALLOWED_IMAGE_FORMATS)

LI_HashtagAdvice(recs, hashtags) ==
    IF hashtags = <<>> THEN Append(recs, <<"add hashtags">>)
    ELSE IF Len(hashtags) > LI_OPTIMAL_HASHTAGS THEN Append(recs, <<"fewer hashtags">>)
    ELSE recs

LI_adapt_text_content(content_item) ==
    IF IsNone(content_item.text_content)
    THEN FailureResult(content_item, <<"missing text_content">>)
    ELSE
    LET tc == Get(content_item.text_content)
        original_text == tc.text
        is_article == LI_is_article(original_text)
        fitted == IF is_article THEN LI_adapt_article_length(original_text)
                  ELSE LI_adapt_post_length(original_text)
        h == LI_adapt_hashtags(fitted, tc.hashtags)
        adapted_text == LI_adapt_mentions(h.text)
        hashtags == h.tags
        w1 == SetPayloadField(CopyItem(content_item), "text_content", "text", adapted_text)
        w2 == SetPayloadField(w1, "text_content", "hashtags", Some(hashtags))
        words == WordCount(adapted_text)
        r1 == IF is_article
              THEN AddIf(AddIf(<<>>, words < 800, <<"article short">>),
                         words >= 800 /\ words > 2000, <<"article long">>)
              ELSE AddIf(<<>>, 2 * words > 3 * LI_IDEAL_POST_LENGTH, <<"post long">>)
        r2 == Append(LI_HashtagAdvice(r1, hashtags), <<"posts with images do better">>)
    IN  SuccessResult(w2,
            [platform |-> "linkedin",
             content_type |-> IF is_article THEN "article" ELSE "post",
             character_count |-> Len(adapted_text),
             word_count |-> words,
             hashtag_count |-> Len(hashtags),
             is_within_limits |->
                 Len(adapted_text) <= (IF is_article THEN LI_MAX_ARTICLE_LENGTH
                                       ELSE LI_MAX_POST_LENGTH),
             recommendations |-> r2])

LI_adapt_image_content(content_item) ==
    IF IsNone(content_item.image_content)
    THEN FailureResult(content_item, <<"missing image_content">>)
    ELSE
    LET ic == Get(content_item.image_content)
        caption == OrEmpty(ic.caption)
        is_article == LI_is_article(caption)
        fitted == IF is_article THEN LI_adapt_article_length(caption)
                  ELSE LI_adapt_post_length(caption)
        h == LI_adapt_hashtags(fitted, None)
        adapted_caption == h.text
        hashtags == h.tags
        image_format_valid ==
            IF NonEmpty(ic.image_url) THEN LI_check_image_format(Get(ic.image_url)) ELSE TRUE
        w1 == SetPayloadField(CopyItem(content_item), "image_content", "caption",
                              Some(adapted_caption))
        r1 == AddIf(<<>>, ~NonEmpty(ic.alt_text), <<"add alt text">>)
        r2 == AddIf(r1, ~image_format_valid, <<"unsupported image format">>)
        r3 == IF caption = <<>> THEN Append(r2, <<"add caption">>)
              ELSE AddIf(r2, is_article /\ WordCount(caption) < 800, <<"article short">>)
    IN  SuccessResult(w1,
            [platform |-> "linkedin", content_type |-> "image",
             post_type |-> IF is_article THEN "article" ELSE "post",
             caption_length |-> Len(adapted_caption),
             image_url |-> ic.image_url,
             alt_text_available |-> NonEmpty(ic.alt_text),
             image_format_valid |-> image_format_valid,
             hashtag_count |-> Len(hashtags),
             recommendations |-> LI_HashtagAdvice(r3, hashtags)])

LI_adapt_video_content(content_item) ==
    IF IsNone(content_item.video_content)
    THEN FailureResult(content_item, <<"missing video_content">>)
    ELSE
    LET vc == Get(content_item.video_content)
        original_title == vc.title
        adapted_title == LI_truncate_text(original_title, LI_MAX_TITLE_LENGTH)
        description == OrEmpty(vc.description)
        h == LI_adapt_hashtags(LI_truncate_text(description, LI_MAX_DESCRIPTION_LENGTH), None)
        adapted_description == h.text
        hashtags == h.tags
        w1 == SetPayloadField(CopyItem(content_item), "video_content", "title", adapted_title)
        w2 == SetPayloadField(w1, "video_content", "description", Some(adapted_description))
        has_duration == ~IsNone(vc.duration_seconds) /\ Get(vc.duration_seconds) # 0
        over_max == has_duration /\ Get(vc.duration_seconds) > LI_MAX_VIDEO_LENGTH_SECONDS
        over_ideal == has_duration /\ ~over_max
                         /\ Get(vc.duration_seconds) > LI_IDEAL_VIDEO_LENGTH_SECONDS
        r1 == AddIf(AddIf(<<>>, over_max, <<"over maximum length">>),
                    over_ideal, <<"video long">>)
        r2 == AddIf(r1, original_title # adapted_title,
                    <<"title shortened", Len(original_title), Len(adapted_title)>>)
        r3 == AddIf(r2, description = <<>>, <<"add description">>)
        r4 == AddIf(r3, ~NonEmpty(vc.thumbnail_prompt), <<"add thumbnail">>)
    IN  SuccessResult(w2,
            [platform |-> "linkedin", content_type |-> "video",
             title_length |-> Len(adapted_title),
             description_length |-> Len(adapted_description),
             duration_seconds |-> vc.duration_seconds,
             duration_valid |-> ~over_max,
             hashtag_count |-> Len(hashtags),
             recommendations |-> LI_HashtagAdvice(r4, hashtags)])

LI_adapt_content(content_item) ==
    IF content_item.content_type = "text" THEN LI_adapt_text_content(content_item)
    ELSE IF content_item.content_type = "image" THEN LI_adapt_image_content(content_item)
    ELSE IF content_item.content_type = "video" THEN LI_adapt_video_content(content_item)
    ELSE FailureResult(content_item, <<"unsupported content type">>)

(***************************************************************************)
(* YouTubeAdapter                                                          *)
(* (of the metadata, the fields that depend on the tag extractor and on    *)
(* the SEO heuristics are not part of the record)                          *)
(***************************************************************************)
YT_MAX_TITLE_LENGTH == 100
YT_IDEAL_TITLE_LENGTH == 60
YT_MAX_DESCRIPTION_LENGTH == 5000
YT_MIN_DESCRIPTION_LENGTH == 250
YT_MIN_VIDEO_LENGTH_SECONDS == 30
YT_IDEAL_VIDEO_LENGTH_SECONDS == 480
YT_MAX_SHORTS_LENGTH_SECONDS == 60
YT_TITLE_WORDS == 10
YT_THUMBNAIL_FORMATS ==
    {<<".", "j", "p", "g">>, <<".", "j", "p", "e", "g">>, <<".", "p", "n", "g">>,
     <<".", "g", "i", "f">>, <<".", "b", "m", "p">>}

YT_NeedTitle == <<"u9700", "u8981", "u63d0", "u4f9b", "u5f71", "u7247", "u6a19", "u984c">>
YT_NeedScript ==
    <<"[", "u9700", "u8981", "u63d0", "u4f9b", "u5f71", "u7247", "u8173", "u672c", "]">>
YT_NeedDescription ==
    <<"[", "u9700", "u8981", "u63d0", "u4f9b", "u5f71", "u7247", "u63cf", "u8ff0", "]">>
YT_DefaultTitle == <<"Y", "o", "u", "T", "u", "b", "e", " ", "u5f71", "u7247">>
YT_ThumbTitle == <<"u5f71", "u7247", "u6a19", "u984c">>
YT_ThumbPrefix ==
    <<"Y", "o", "u", "T", "u", "b", "e", " ", "u7e2e", "u7565", "u5716", ":", " ">>
YT_DefaultThumbPrompt ==
    <<"u9ad8", "u54c1", "u8cea", " ", "Y", "o", "u", "T", "u", "b", "e", " ",
      "u5f71", "u7247", "u7e2e", "u7565", "u5716">>

\* title[0].upper() + title[1:] when the title starts with a-z
Capitalized(title) ==
    IF StartsLower(title) THEN <<Upper(title[1])>> \o Tail(title) ELSE title

YT_adapt_title(title) ==
    IF title = <<>> THEN YT_NeedTitle
    ELSE Capitalized(IF Len(title) > YT_MAX_TITLE_LENGTH
                     THEN YT_truncate_text(title, YT_MAX_TITLE_LENGTH) ELSE title)

YT_adapt_description(description) ==
    IF description = <<>> THEN <<>>
    ELSE IF Len(description) > YT_MAX_DESCRIPTION_LENGTH
    THEN YT_truncate_text(description, YT_MAX_DESCRIPTION_LENGTH)
    ELSE description

YT_generate_title_from_text(text) ==
    IF text = <<>> THEN YT_DefaultTitle
    ELSE
    LET dots == {i \in 1..Len(text) : text[i] = "."}
        first_sentence == Strip(IF dots = {} THEN text ELSE SubSeq(text, 1, SetMin(dots) - 1))
        words == Words(first_sentence)
        shortened == IF Len(words) > YT_TITLE_WORDS
                     THEN Join(<<" ">>, SubSeq(words, 1, YT_TITLE_WORDS)) \o Ellipsis
                     ELSE first_sentence
        fitted == IF Len(shortened) > YT_IDEAL_TITLE_LENGTH
                  THEN YT_truncate_text(shortened, YT_IDEAL_TITLE_LENGTH) ELSE shortened
    IN  Capitalized(fitted)

YT_check_thumbnail_format(image_url) ==
    image_url # <<>> /\ HasFormat(image_url, YT_THUMBNAIL_FORMATS)

\* VideoContent(title=..., description=..., script=...)
YT_NewVideoContent(title, description) ==
    [title |-> title, script |-> YT_NeedScript, description |-> Some(description),
     thumbnail_prompt |-> None, duration_seconds |-> None]

(***************************************************************************)
(* YouTube: tags and the checks behind the recommendations                 *)
(***************************************************************************)
YT_OPTIMAL_DESCRIPTION_LENGTH == 1000
YT_MAX_TAGS == 500
YT_MAX_TAG_LENGTH == 30

\* the regular expression class \d
IsDigit(c) == c \in {"0", "1", "2", "3", "4", "5", "6", "7", "8", "9"}

\* re.findall scans left to right and resumes after each match: the indices
\* k of the candidates starts[k] that match (ends[k] > 0) and do not begin
\* inside an earlier match
RECURSIVE LeftmostMatches(_, _, _, _)
LeftmostMatches(starts, ends, k, from) ==
    IF k > Len(starts) THEN <<>>
    ELSE IF starts[k] >= from /\ ends[k] > 0
         THEN <<k>> \o LeftmostMatches(starts, ends, k + 1, ends[k] + 1)
         ELSE LeftmostMatches(starts, ends, k + 1, from)

\* the position of the first character at or after i for which Stop holds,
\* or 0 when there is none
FirstAt(text, i, stop) ==
    LET at == {j \in i..Len(text) : text[j] \in stop}
    IN  IF at = {} THEN 0 ELSE SetMin(at)

\* re.findall(r'"([^"]+)"', text)
QuotedPhrases(text) ==
    LET starts == SortedSeq({i \in 1..Len(text) : text[i] = "\""})
        End(i) == IF i + 1 <= Len(text) /\ text[i + 1] # "\""
                  THEN FirstAt(text, i + 1, {"\""}) ELSE 0
        ends == [k \in 1..Len(starts) |-> End(starts[k])]
        ms == LeftmostMatches(starts, ends, 1, 1)
    IN  [m \in 1..Len(ms) |-> SubSeq(text, starts[ms[m]] + 1, ends[ms[m]] - 1)]

\* re.findall(r'\*\*([^*]+)\*\*', text)
BoldPhrases(text) ==
    LET starts == SortedSeq({i \in 1..(Len(text) - 1) :
                                text[i] = "*" /\ text[i + 1] = "*"})
        Close(i) == FirstAt(text, i + 2, {"*"})
        End(i) == IF /\ i + 2 <= Len(text)
                     /\ text[i + 2] # "*"
                     /\ Close(i) > 0
                     /\ Close(i) + 1 <= Len(text)
                     /\ text[Close(i) + 1] = "*"
                  THEN Close(i) + 1 ELSE 0
        ends == [k \in 1..Len(starts) |-> End(starts[k])]
        ms == LeftmostMatches(starts, ends, 1, 1)
    IN  [m \in 1..Len(ms) |-> SubSeq(text, starts[ms[m]] + 2, ends[ms[m]] - 2)]

\* the three nested tests of the de-duplication loop
YT_keep_tag_noDedupe(tag, unique_tags, total_length) ==
    /\ Len(tag) <= YT_MAX_TAG_LENGTH
    /\ total_length + Len(tag) + 1 <= YT_MAX_TAGS

YT_keep_tag(tag, unique_tags, total_length) ==
    /\ ~InSeq(tag, unique_tags)
    /\ Len(tag) <= YT_MAX_TAG_LENGTH
    /\ total_length + Len(tag) + 1 <= YT_MAX_TAGS

\* the de-duplication loop, from candidate k on
RECURSIVE YT_unique_tags(_, _, _, _)
YT_unique_tags(tags, k, unique_tags, total_length) ==
    IF k > Len(tags) THEN unique_tags
    ELSE IF YT_keep_tag(tags[k], unique_tags, total_length)
         THEN YT_unique_tags(tags, k + 1, Append(unique_tags, tags[k]),
                             total_length + Len(tags[k]) + 1)
         ELSE YT_unique_tags(tags, k + 1, unique_tags, total_length)

\* the candidates in the order the code collects them: title words, inline
\* hashtags, quoted and bold phrases
YT_tag_candidates(text, title) ==
    LET IsKeyword(word) == Len(word) > 3
        IsPhrase(phrase) == /\ 2 < WordCount(phrase)
                            /\ WordCount(phrase) < 5
                            /\ Len(phrase) < YT_MAX_TAG_LENGTH
        title_words == Words([k \in 1..Len(title) |->
                                 IF IsWordChar(title[k]) \/ IsSpace(title[k])
                                 THEN title[k] ELSE " "])
        kept == SelectSeq(title_words, IsKeyword)
        title_tags == [k \in 1..Len(kept) |-> LowerStr(kept[k])]
        phrases == SelectSeq(QuotedPhrases(text) \o BoldPhrases(text), IsPhrase)
    IN  Prefix(title_tags, 3)
            \o FindAllTags(text)
            \o [k \in 1..Len(phrases) |-> LowerStr(phrases[k])]

YT_extract_tags(text, title) == YT_unique_tags(YT_tag_candidates(text, title), 1, <<>>, 0)

\* the match of \b(\d+:\d+(?::\d+)?)\b that starts at i, as the position of
\* its last character, or 0: every \d+ takes its whole run of digits, and
\* the optional third group is given up when no word boundary follows it
TimestampEnd(text, i) ==
    LET RunEnd(j) == LET stops == {m \in j..Len(text) : ~IsDigit(text[m])}
                     IN  IF stops = {} THEN Len(text) ELSE SetMin(stops) - 1
        FollowedByRun(e) == /\ e + 2 <= Len(text)
                            /\ text[e + 1] = ":"
                            /\ IsDigit(text[e + 2])
        BoundaryAfter(e) == e = Len(text) \/ ~IsWordChar(text[e + 1])
        e1 == RunEnd(i)
        e2 == RunEnd(e1 + 2)
        e3 == RunEnd(e2 + 2)
    IN  IF ~FollowedByRun(e1) THEN 0
        ELSE IF FollowedByRun(e2) /\ BoundaryAfter(e3) THEN e3
        ELSE IF BoundaryAfter(e2) THEN e2
        ELSE 0

YT_has_timestamps(text) ==
    LET starts == SortedSeq({i \in 1..Len(text) :
                                IsDigit(text[i]) /\ (i = 1 \/ ~IsWordChar(text[i - 1]))})
        ends == [k \in 1..Len(starts) |-> TimestampEnd(text, starts[k])]
    IN  Len(LeftmostMatches(starts, ends, 1, 1)) >= 2

\* re.findall(r'https?://[^\s]+', text) finds something
YT_has_links(text) ==
    LET Url(scheme) == \E i \in 1..(Len(text) - Len(scheme)) :
                           /\ SubSeq(text, i, i + Len(scheme) - 1) = scheme
                           /\ ~IsSpace(text[i + Len(scheme)])
    IN  \/ Url(<<"h", "t", "t", "p", ":", "/", "/">>)
        \/ Url(<<"h", "t", "t", "p", "s", ":", "/", "/">>)

YT_cta_phrases ==
    <<<<"s", "u", "b", "s", "c", "r", "i", "b", "e">>,
      <<"l", "i", "k", "e">>,
      <<"c", "o", "m", "m", "e", "n", "t">>,
      <<"s", "h", "a", "r", "e">>,
      <<"c", "l", "i", "c", "k">>,
      <<"j", "o", "i", "n">>,
      <<"f", "o", "l", "l", "o", "w">>,
      <<"c", "h", "e", "c", "k", " ", "o", "u", "t">>,
      <<"v", "i", "s", "i", "t">>,
      <<"d", "o", "w", "n", "l", "o", "a", "d">>,
      <<"u8a02", "u95b1">>,
      <<"u9ede", "u8d0a">>,
      <<"u8a55", "u8ad6">>,
      <<"u5206", "u4eab">>,
      <<"u9ede", "u64ca">>,
      <<"u52a0", "u5165">>,
      <<"u95dc", "u6ce8">>,
      <<"u67e5", "u770b">>,
      <<"u8a2a", "u554f">>,
      <<"u4e0b", "u8f09">>>>

YT_has_call_to_action(text) ==
    LET lower_text == LowerStr(text)
    IN  \E k \in 1..Len(YT_cta_phrases) : Contains(lower_text, YT_cta_phrases[k])

YT_attention_words ==
    <<<<"h", "o", "w">>,
      <<"w", "h", "y">>,
      <<"w", "h", "a", "t">>,
      <<"b", "e", "s", "t">>,
      <<"t", "o", "p">>,
      <<"g", "u", "i", "d", "e">>,
      <<"t", "u", "t", "o", "r", "i", "a", "l">>,
      <<"r", "e", "v", "i", "e", "w">>,
      <<"t", "i", "p", "s">>,
      <<"s", "e", "c", "r", "e", "t", "s">>,
      <<"u", "l", "t", "i", "m", "a", "t", "e">>,
      <<"c", "o", "m", "p", "l", "e", "t", "e">>>>

YT_is_title_seo_optimized(title) ==
    /\ title # <<>>
    /\ 20 <= Len(title)
    /\ Len(title) <= YT_IDEAL_TITLE_LENGTH
    /\ \E i \in 1..Len(title) : IsDigit(title[i])
    /\ \E k \in 1..Len(YT_attention_words) :
           Contains(LowerStr(title), YT_attention_words[k])

\* len(' '.join(description.split('\n')[:2])): the first two lines keep
\* their length when joined by a space
FirstLinesLength(description) ==
    LET breaks == SortedSeq({i \in 1..Len(description) : description[i] = "\n"})
    IN  IF Len(breaks) < 2 THEN Len(description) ELSE breaks[2] - 1

YT_is_description_seo_optimized(description) ==
    /\ description # <<>>
    /\ Len(description) >= YT_MIN_DESCRIPTION_LENGTH
    /\ FirstLinesLength(description) >= 50
    /\ \/ YT_has_timestamps(description)
       \/ YT_has_links(description)
       \/ YT_has_call_to_action(description)

\* the recommendations of adapt_video_content after the one about the title
\* adjustment, in the order the code appends them
YT_video_recommendations(r1, description, adapted_description, title_seo, tags_count, has_thumbnail, is_shorts, duration_recommendation) ==
    LET r2 == AddIf(r1, ~title_seo, <<"improve title seo">>)
        r3 == IF description = <<>> THEN Append(r2, <<"add description">>)
              ELSE AddIf(r2, Len(adapted_description) < YT_MIN_DESCRIPTION_LENGTH,
                         <<"description short">>)
        r4 == AddIf(r3, ~has_thumbnail, <<"add thumbnail">>)
        r5 == r4 \o duration_recommendation
        r6 == IF tags_count = 0 THEN Append(r5, <<"add tags">>)
              ELSE AddIf(r5, tags_count < 5, <<"more tags">>)
        r7 == AddIf(r6, ~is_shorts /\ ~YT_has_timestamps(adapted_description),
                    <<"add timestamps">>)
        r8 == AddIf(r7, ~YT_has_call_to_action(adapted_description),
                    <<"add call to action">>)
    IN  AddIf(r8, ~YT_has_links(adapted_description), <<"add links">>)

YT_adapt_video_content(content_item) ==
    IF IsNone(content_item.video_content)
    THEN FailureResult(content_item, <<"missing video_content">>)
    ELSE
    LET vc == Get(content_item.video_content)
        original_title == vc.title
        adapted_title == YT_adapt_title(original_title)
        description == OrEmpty(vc.description)
        adapted_description == YT_adapt_description(description)
        w1 == SetPayloadField(CopyItem(content_item), "video_content", "title", adapted_title)
        w2 == SetPayloadField(w1, "video_content", "description", Some(adapted_description))
        has_duration == ~IsNone(vc.duration_seconds) /\ Get(vc.duration_seconds) # 0
        is_shorts == has_duration /\ Get(vc.duration_seconds) <= YT_MAX_SHORTS_LENGTH_SECONDS
        very_short == is_shorts /\ Get(vc.duration_seconds) < 15
        short == has_duration /\ ~is_shorts
                    /\ Get(vc.duration_seconds) < YT_MIN_VIDEO_LENGTH_SECONDS
        long == has_duration /\ ~is_shorts /\ ~short
                   /\ Get(vc.duration_seconds) > YT_IDEAL_VIDEO_LENGTH_SECONDS * 2
        r1 == AddIf(<<>>, original_title # adapted_title,
                    <<"title adjusted", Len(original_title), Len(adapted_title)>>)
    IN  SuccessResult(w2,
            [platform |-> "youtube",
             content_type |-> IF is_shorts THEN "shorts" ELSE "video",
             title_length |-> Len(adapted_title),
             description_length |-> Len(adapted_description),
             title_seo_optimized |-> YT_is_title_seo_optimized(adapted_title),
             description_seo_optimized |->
                 YT_is_description_seo_optimized(adapted_description),
             tags_count |-> Len(YT_extract_tags(adapted_description, original_title)),
             duration_seconds |-> vc.duration_seconds,
             has_thumbnail |-> NonEmpty(vc.thumbnail_prompt),
             recommendations |->
                 YT_video_recommendations(
                     r1, description, adapted_description,
                     YT_is_title_seo_optimized(adapted_title),
                     Len(YT_extract_tags(adapted_description, original_title)),
                     NonEmpty(vc.thumbnail_prompt), is_shorts,
                     IF very_short THEN <<<<"short even for shorts">>>>
                     ELSE IF short THEN <<<<"video short">>>>
                     ELSE IF long THEN <<<<"video long">>>>
                     ELSE <<>>)])

\* the recommendations of adapt_to_description after the one about the length
YT_description_recommendations(r1, adapted_description) ==
    LET r2 == AddIf(r1, ~YT_is_description_seo_optimized(adapted_description),
                    <<"improve description seo">>)
        r3 == AddIf(r2, ~YT_has_timestamps(adapted_description), <<"add timestamps">>)
        r4 == AddIf(r3, ~YT_has_call_to_action(adapted_description),
                    <<"add call to action">>)
    IN  AddIf(r4, ~YT_has_links(adapted_description), <<"add links">>)

YT_adapt_to_description(content_item) ==
    IF IsNone(content_item.text_content)
    THEN FailureResult(content_item, <<"missing text_content">>)
    ELSE
    LET original_text == Get(content_item.text_content).text
        adapted_description == YT_adapt_description(original_text)
        w1 == SetAttribute(CopyItem(content_item), "content_type", "video")
        w2 == IF IsNone(w1.copy.video_content)
              THEN SetAttribute(w1, "video_content",
                       Some(YT_NewVideoContent(YT_generate_title_from_text(original_text),
                                               adapted_description)))
              ELSE SetPayloadField(w1, "video_content", "description",
                                   Some(adapted_description))
        r1 == AddIf(<<>>, Len(adapted_description) < YT_MIN_DESCRIPTION_LENGTH,
                    <<"description short">>)
    IN  SuccessResult(w2,
            [platform |-> "youtube", content_type |-> "video_description",
             original_type |-> "text",
             description_length |-> Len(adapted_description),
             description_seo_optimized |->
                 YT_is_description_seo_optimized(adapted_description),
             tags_count |-> Len(YT_extract_tags(adapted_description, <<>>)),
             has_timestamps |-> YT_has_timestamps(adapted_description),
             has_call_to_action |-> YT_has_call_to_action(adapted_description),
             has_links |-> YT_has_links(adapted_description),
             recommendations |-> YT_description_recommendations(r1, adapted_description)])

YT_adapt_to_thumbnail(content_item) ==
    IF IsNone(content_item.image_content)
    THEN FailureResult(content_item, <<"missing image_content">>)
    ELSE
    LET ic == Get(content_item.image_content)
        image_url == ic.image_url
        image_prompt == ic.prompt
        caption == OrEmpty(ic.caption)
        title == IF caption # <<>> THEN YT_generate_title_from_text(caption)
                 ELSE YT_ThumbTitle
        prompt_or_default == IF image_prompt # <<>> THEN image_prompt
                             ELSE YT_DefaultThumbPrompt
        w1 == SetAttribute(CopyItem(content_item), "content_type", "video")
        w2 == IF IsNone(w1.copy.video_content)
              THEN SetAttribute(w1, "video_content",
                                Some(YT_NewVideoContent(title, YT_NeedDescription)))
              ELSE w1
        w3 == IF NonEmpty(image_url)
              THEN SetPayloadField(w2, "video_content", "thumbnail_prompt",
                                   Some(YT_ThumbPrefix \o prompt_or_default))
              ELSE SetPayloadField(w2, "video_content", "thumbnail_prompt",
                                   Some(prompt_or_default))
    IN  \* a URL of a supported format is assigned to video_content.thumbnail_url,
        \* which is not a field of VideoContent: the model class raises ValueError
        IF NonEmpty(image_url) /\ YT_check_thumbnail_format(Get(image_url))
        THEN Raised(w2.orig, <<"ValueError">>)
        ELSE SuccessResult(w3,
            [platform |-> "youtube", content_type |-> "thumbnail",
             original_type |-> "image",
             has_image_url |-> NonEmpty(image_url),
             has_prompt |-> image_prompt # <<>>,
             recommendations |->
                 <<<<"thumbnail size">>, <<"vivid colours">>, <<"few words">>,
                   <<"complement the title">>>>])

YT_adapt_content(content_item) ==
    IF content_item.content_type = "video" THEN YT_adapt_video_content(content_item)
    ELSE IF content_item.content_type = "text" THEN YT_adapt_to_description(content_item)
    ELSE IF content_item.content_type = "image" THEN YT_adapt_to_thumbnail(content_item)
    ELSE FailureResult(content_item, <<"unsupported content type">>)

(***************************************************************************)
(* Input domains                                                           *)
(***************************************************************************)
\* all sequences over S of length at most n
RECURSIVE SeqsUpTo(_, _)
SeqsUpTo(S, n) ==
    IF n = 0 THEN {<<>>}
    ELSE LET shorter == SeqsUpTo(S, n - 1)
         IN  shorter \cup {Append(s, x) : s \in {t \in shorter : Len(t) = n - 1}, x \in S}

\* a run of n copies of the word character c
Run(c, n) == [i \in 1..n |-> c]

MaxMid == 4        \* longest freely chosen middle part of a truncation input
MaxBudget == 8     \* largest max_length tried

TruncChars == {"a", " ", ".", "\n"}

\* "aaa" or nothing, then every short text over TruncChars, then a tail of
\* word characters that is empty or long enough to reach LinkedIn's
\* text[:max_length - 50] window
TruncTexts ==
    {Run("a", h) \o mid \o Run("a", t) :
        h \in {0, 5}, mid \in SeqsUpTo(TruncChars, MaxMid), t \in {0, 50}}

(***************************************************************************)
(* Specification of the truncation engine: one call of one platform's      *)
(* _truncate_text on a text and a budget                                   *)
(***************************************************************************)
InitTruncate ==
    /\ op = "none"
    /\ platform = "none"
    /\ in_text \in TruncTexts
    /\ in_max \in 1..MaxBudget
    /\ in_title = Unset
    /\ in_tags = Unset
    /\ out = Unset
    /\ item = Unset
    /\ result = Unset
    /\ NoPipeline /\ NoSchema /\ NoScorer /\ NoModeler

CallTruncate(p, r) ==
    /\ op = "none"
    /\ op' = "truncate"
    /\ platform' = p
    /\ out' = r
    /\ UNCHANGED <<in_text, in_max, in_tags, in_title, item, result>>
    /\ UNCHANGED <<pipelineVars, schemaVars, scorerVars, modelerVars>>

TruncateFacebook == CallTruncate("facebook", FB_truncate_text(in_text, in_max))
TruncateInstagram == CallTruncate("instagram", IG_truncate_text(in_text, in_max))
TruncateLinkedIn == CallTruncate("linkedin", LI_truncate_text(in_text, in_max))
TruncateYouTube == CallTruncate("youtube", YT_truncate_text(in_text, in_max))

NextTruncate ==
    \/ TruncateFacebook
    \/ TruncateInstagram
    \/ TruncateLinkedIn
    \/ TruncateYouTube

SpecTruncate == InitTruncate /\ [][NextTruncate]_vars

(***************************************************************************)
(* Inputs of the hashtag reconciler                                        *)
(***************************************************************************)
MaxTokens == 4      \* longest freely composed caption, in tokens
MaxSmallTags == 2   \* longest freely composed explicit tag list
MaxInline == 12     \* most inline tags of a generated caption
MaxExplicit == 20   \* longest generated explicit tag list

TagTokens == {<<"#", "a">>, <<"#", "b">>, <<"w">>, <<" ">>}

\* every caption of at most MaxTokens tokens
SmallTexts == {Flatten(ts) : ts \in SeqsUpTo(TagTokens, MaxTokens)}

\* None, or every explicit list of at most MaxSmallTags tags, each an inline
\* name (a) or a new one (c)
SmallLists ==
    {None} \cup {Some(l) : l \in SeqsUpTo({<<"a">>, <<"c">>}, MaxSmallTags)}

TagLetters == <<"a", "b", "c", "d", "e", "f", "g">>

\* pairwise different two-letter tag names for i in 0..48
TagName(i) == <<TagLetters[((i \div 7) % 7) + 1], TagLetters[(i % 7) + 1]>>

\* k tag names that start at name number off and repeat with period d
TagRun(k, off, d) == [j \in 1..k |-> TagName(off + ((j - 1) % d))]

\* a body followed by n inline tags, all equal (d = 1) or all different
GenTexts ==
    {body \o Join(<<" ">>, Hashed(TagRun(n, 0, d))) :
        body \in {<<>>, <<"w", " ">>}, n \in 0..MaxInline, d \in {1, MaxInline + 1}}

\* explicit lists that repeat the inline names (off = 0) or are new ones
GenLists ==
    {Some(TagRun(k, off, d)) :
        k \in 0..MaxExplicit, off \in {0, MaxInline}, d \in {1, MaxExplicit + 1}}

(***************************************************************************)
(* Specification of the hashtag reconciler: one call of one platform's     *)
(* _adapt_hashtags on a text and an explicit tag list                      *)
(***************************************************************************)
InitHashtags ==
    /\ op = "none"
    /\ platform = "none"
    /\ \/ in_text \in SmallTexts /\ in_tags \in SmallLists
       \/ in_text \in GenTexts /\ in_tags \in GenLists
    /\ in_max = 0
    /\ in_title = Unset
    /\ out = Unset
    /\ item = Unset
    /\ result = Unset
    /\ NoPipeline /\ NoSchema /\ NoScorer /\ NoModeler

CallHashtags(p, r) ==
    /\ op = "none"
    /\ op' = "hashtags"
    /\ platform' = p
    /\ out' = r
    /\ UNCHANGED <<in_text, in_max, in_tags, in_title, item, result>>
    /\ UNCHANGED <<pipelineVars, schemaVars, scorerVars, modelerVars>>

HashtagsFacebook == CallHashtags("facebook", FB_adapt_hashtags(in_text, in_tags))
HashtagsInstagram == CallHashtags("instagram", IG_adapt_hashtags(in_text, in_tags))
HashtagsLinkedIn == CallHashtags("linkedin", LI_adapt_hashtags(in_text, in_tags))

NextHashtags ==
    \/ HashtagsFacebook
    \/ HashtagsInstagram
    \/ HashtagsLinkedIn

SpecHashtags == InitHashtags /\ [][NextHashtags]_vars

(***************************************************************************)
(* Inputs of the adapters: ContentItems of every content type, with the    *)
(* payload the type asks for absent or present, and the other payloads     *)
(* absent or present as well                                               *)
(***************************************************************************)
MaxAdaptTokens == 2   \* longest freely composed text of a text payload, in tokens

\* a text one character over Instagram's caption limit, made of words of
\* nine characters
LongText ==
    [i \in 1..(IG_MAX_CAPTION_LENGTH + 1) |-> IF i % 10 = 0 THEN " " ELSE "a"]

AdaptTexts ==
    {Flatten(ts) : ts \in SeqsUpTo(TagTokens, MaxAdaptTokens)} \cup GenTexts \cup {LongText}

\* None, the short lists, and lists of new names just under, just over and
\* far over Facebook's cap
AdaptLists ==
    SmallLists \cup
    {Some(TagRun(k, MaxInline, MaxExplicit + 1)) : k \in {4, 6, MaxExplicit}}

\* the longest text LinkedIn classifies as a post by its characters, and a
\* text one character over LinkedIn's post limit, made of words of ten
\* characters (fewer than 300 words)
BoundaryTexts ==
    {Run("a", LI_ARTICLE_CHARS),
     [i \in 1..(LI_MAX_POST_LENGTH + 1) |-> IF i % 11 = 0 THEN " " ELSE "a"]}

TextPayloads ==
    {[text |-> t, hashtags |-> h] : t \in AdaptTexts, h \in AdaptLists}
    \cup {[text |-> t, hashtags |-> None] : t \in BoundaryTexts}

ImageUrls ==
    {None, Some(<<>>), Some(<<"w">>),
     Some(<<"w", ".", "j", "p", "g">>), Some(<<"w", ".", "J", "P", "G">>),
     Some(<<"w", ".", "b", "m", "p">>), Some(<<"w", ".", "g", "i", "f">>)}

Captions ==
    {None, Some(<<>>), Some(<<"a", " ", "w", ".", " ", "w">>)}
    \cup {Some(<<"w", " ">> \o Join(<<" ">>, Hashed(TagRun(n, 0, MaxInline + 1)))) :
             n \in {1, 4, 6}}

\* a caption of exactly Instagram's caption limit that ends in four hashtags
\* written without white space between them
LongCaptions ==
    {Run("a", IG_MAX_CAPTION_LENGTH - 8) \o <<"#", "a", "#", "b", "#", "c", "#", "d">>}

ImagePayloads ==
    {[prompt |-> p, image_url |-> u, alt_text |-> a, caption |-> c] :
        p \in {<<>>, <<"p">>}, u \in ImageUrls, a \in {None, Some(<<"t">>)},
        c \in Captions}
    \cup {[prompt |-> <<"p">>, image_url |-> None, alt_text |-> None,
           caption |-> Some(c)] : c \in LongCaptions}

Titles ==
    {<<>>, <<"w">>, <<"A", " ", "w">>,
     Run("a", FB_MAX_TITLE_LENGTH + 1),
     <<"w", " ">> \o Run("a", LI_MAX_TITLE_LENGTH)}

Descriptions ==
    {None, Some(<<>>), Some(<<"w", " ">> \o Join(<<" ">>, Hashed(TagRun(4, 0, MaxInline + 1))))}

Durations ==
    {None} \cup {Some(d) : d \in {0, 10, 20, 45, 60, 61, 90, 91, 200, 700, 1000}}

\* descriptions with a call to action, a link and two timestamps, padded
\* with words of nine characters: one between the minimum and the ideal
\* length, one over the ideal length and one over the maximum length
DescriptionHead ==
    <<"s", "u", "b", "s", "c", "r", "i", "b", "e", " ", "h", "t",
      "t", "p", ":", "/", "/", "a", " ", "0", ":", "0", "0", " ",
      "1", ":", "0", "0", " ", "#", "a", " ", "#", "b", " ", "#",
      "c", " ", "#", "d", " ", "#", "e", " ">>

PaddedDescription(n) ==
    DescriptionHead
        \o [i \in 1..(n - Len(DescriptionHead)) |-> IF i % 10 = 0 THEN " " ELSE "a"]

LongDescriptions ==
    {PaddedDescription(YT_MIN_DESCRIPTION_LENGTH + 1),
     PaddedDescription(YT_OPTIMAL_DESCRIPTION_LENGTH + 1),
     PaddedDescription(YT_MAX_DESCRIPTION_LENGTH + 1)}

VideoPayloads ==
    {[title |-> t, script |-> <<"s">>, description |-> d, thumbnail_prompt |-> tp,
      duration_seconds |-> ds] :
        t \in Titles, d \in Descriptions, tp \in {None, Some(<<"t">>)}, ds \in Durations}
    \cup {[title |-> <<"w">>, script |-> <<"s">>, description |-> Some(d),
           thumbnail_prompt |-> Some(<<"t">>), duration_seconds |-> Some(200)] :
              d \in LongDescriptions}

SampleText == [text |-> <<"w", " ", "#", "a">>, hashtags |-> Some(<<<<"c">>>>)]
SampleImage ==
    [prompt |-> <<"p">>, image_url |-> None, alt_text |-> None, caption |-> Some(<<"w">>)]
SampleVideo ==
    [title |-> <<"w">>, script |-> <<"s">>, description |-> None,
     thumbnail_prompt |-> None, duration_seconds |-> Some(45)]

Opt(S) == {None} \cup {Some(x) : x \in S}

BrandId == <<"b">>

ContentItems ==
    {ContentItem(BrandId, "text", t, i, v) :
        t \in Opt(TextPayloads), i \in Opt({SampleImage}), v \in Opt({SampleVideo})}
    \cup
    {ContentItem(BrandId, "image", t, i, v) :
        t \in Opt({SampleText}), i \in Opt(ImagePayloads), v \in Opt({SampleVideo})}
    \cup
    {ContentItem(BrandId, "video", t, i, v) :
        t \in Opt({SampleText}), i \in Opt({SampleImage}), v \in Opt(VideoPayloads)}
    \cup
    {ContentItem(BrandId, ct, t, i, v) :
        ct \in {"carousel", "story", "reel"},
        t \in Opt({SampleText}), i \in Opt({SampleImage}), v \in Opt({SampleVideo})}

(***************************************************************************)
(* Specification of the adapters: one call of one platform's adapt_content *)
(* on a ContentItem.  item is the caller's object, before and after.       *)
(***************************************************************************)
Init ==
    /\ op = "none"
    /\ platform = "none"
    /\ in_text = Unset
    /\ in_max = 0
    /\ in_title = Unset
    /\ in_tags = Unset
    /\ out = Unset
    /\ item \in ContentItems
    /\ result = Unset
    /\ NoPipeline /\ NoSchema /\ NoScorer /\ NoModeler

CallAdapt(p, r) ==
    /\ op = "none"
    /\ op' = "adapt"
    /\ platform' = p
    /\ item' = r.input
    /\ result' = r.ret
    /\ UNCHANGED <<in_text, in_max, in_tags, in_title, out>>
    /\ UNCHANGED <<pipelineVars, schemaVars, scorerVars, modelerVars>>

AdaptFacebook == CallAdapt("facebook", FB_adapt_content(item))
AdaptInstagram == CallAdapt("instagram", IG_adapt_content(item))
AdaptLinkedIn == CallAdapt("linkedin", LI_adapt_content(item))
AdaptYouTube == CallAdapt("youtube", YT_adapt_content(item))

Next ==
    \/ AdaptFacebook
    \/ AdaptInstagram
    \/ AdaptLinkedIn
    \/ AdaptYouTube

Spec == Init /\ [][Next]_vars

(***************************************************************************)
(* Properties of adapt_content, checked under Spec                         *)
(***************************************************************************)
\* the call returned a dictionary
Returned == op = "adapt" /\ result.outcome = "returned"

\* the payload that the declared content type asks for is None
RequiredPayloadMissing(it) ==
    \/ it.content_type = "text" /\ IsNone(it.text_content)
    \/ it.content_type = "image" /\ IsNone(it.image_content)
    \/ it.content_type = "video" /\ IsNone(it.video_content)

\* C1: for every ContentItem and each of the four adapters, adapt_content
\* returns a result that carries a success flag and raises nothing to the
\* caller.
C1_NeverRaises ==
    op = "adapt" => (result.outcome = "returned" /\ result.success \in BOOLEAN)

\* C2: when the payload required by the declared content type (text, image or
\* video) is missing, every adapter returns success = false, a non-empty
\* error, and a content field equal to the item as it was passed in.
C2_MissingPayloadEchoed ==
    [][(op' = "adapt" /\ RequiredPayloadMissing(item))
          => /\ result'.outcome = "returned"
             /\ result'.success = FALSE
             /\ result'.error # <<>>
             /\ result'.content = ItemDict(item)]_vars

\* a call on an item whose required payload is missing although it carries
\* another payload, answered by a failure
C2_Witness ==
    /\ op = "adapt"
    /\ RequiredPayloadMissing(item)
    /\ ~(IsNone(item.text_content) /\ IsNone(item.image_content) /\ IsNone(item.video_content))
    /\ result.outcome = "returned"
    /\ result.success = FALSE

\* C3: an adapter call, successful or failed, on any platform leaves every
\* field of the caller's ContentItem, nested payloads and hashtag list
\* included, as it was before the call.
C3_InputNotMutated == [][op' = "adapt" => item' = item]_vars

\* a successful call whose adapted content differs from the caller's item
C3_Witness ==
    /\ Returned
    /\ result.success = TRUE
    /\ result.content # ItemDict(item)

(***************************************************************************)
(* Properties of _truncate_text, checked under SpecTruncate                *)
(***************************************************************************)
\* the continuation marker of a platform
MarkerLen(p) == IF p = "linkedin" THEN Len(LI_Marker) ELSE Len(Ellipsis)

\* C4: for every text and every max_length >= 1, the result of each
\* platform's _truncate_text is at most max_length plus the length of the
\* platform's continuation marker long.
C4_TruncateBound ==
    op = "truncate" => Len(out) <= in_max + MarkerLen(platform)

\* a LinkedIn truncation whose result is exactly max_length plus the marker
C4_Witness ==
    /\ op = "truncate"
    /\ platform = "linkedin"
    /\ Len(in_text) > in_max
    /\ Len(out) = in_max + Len(LI_Marker)

SentencePunctuation == {".", "!", "?"}

IsBoundary(c) == IsSpace(c) \/ c \in SentencePunctuation

\* keeping the first p characters splits a word: the characters on both
\* sides of the cut belong to one word
InsideWord(text, p) ==
    p >= 1 /\ p < Len(text) /\ ~IsBoundary(text[p]) /\ ~IsBoundary(text[p + 1])

\* what a platform may put after the kept part
Markers(p) ==
    IF p = "linkedin" THEN {LI_Marker, LI_SentenceMarker}
    ELSE IF p = "youtube" THEN {<<>>, Ellipsis}
    ELSE {Ellipsis}

\* C5: when _truncate_text shortens a text and a boundary candidate
\* (whitespace of any kind, or sentence punctuation) exists in the first
\* max_length characters, the result is the text cut at a point that is not
\* inside a word, on all four platforms.
C5_CutAtBoundary ==
    (/\ op = "truncate"
     /\ Len(in_text) > in_max
     /\ \E i \in 1..in_max : IsBoundary(in_text[i]))
    => \E p \in 0..in_max, m \in Markers(platform) :
           /\ out = Strip(Prefix(in_text, p)) \o m
           /\ ~InsideWord(in_text, p)

(***************************************************************************)
(* Properties of _adapt_hashtags, checked under SpecHashtags               *)
(***************************************************************************)
HashtagCap(p) ==
    IF p = "facebook" THEN FB_MAX_HASHTAGS
    ELSE IF p = "instagram" THEN IG_MAX_HASHTAGS
    ELSE LI_MAX_HASHTAGS

\* C6: for every text and every explicit tag list, the tag list returned by
\* each platform's _adapt_hashtags holds no tag value twice.
C6_NoDuplicateTags ==
    op = "hashtags" =>
        \A i, j \in 1..Len(out.tags) : out.tags[i] = out.tags[j] => i = j

\* the explicit tag list as a sequence (None is the empty list)
ExplicitTags == IF IsNone(in_tags) THEN <<>> ELSE Get(in_tags)

\* the inline tokens in order of appearance, then the explicit tags that are
\* not among the inline tokens
MergedList ==
    LET inline == FindAllTags(in_text)
    IN  inline \o SelectSeq(ExplicitTags, LAMBDA t : \A k \in 1..Len(inline) : inline[k] # t)

Suffix(s, n) == SubSeq(s, (IF n < Len(s) THEN n ELSE Len(s)) + 1, Len(s))

\* C8: on Instagram, when the inline tag count exceeds the reflow threshold,
\* the inline tags are stripped from the body and the whole capped tag list
\* follows as one trailing block, separated from a non-empty body by a blank
\* line, every inline tag being in that block when the cap allows; when the
\* count does not exceed the threshold, and on LinkedIn always, the text comes
\* back untouched.
C8_Reflow ==
    (op = "hashtags" /\ platform \in {"instagram", "linkedin"}) =>
        LET inline == FindAllTags(in_text)
            block == Join(<<" ">>, Hashed(out.tags))
            body == Prefix(out.text, Len(out.text) - Len(block) - 2)
        IN  IF platform = "instagram" /\ Len(inline) > IG_REFLOW_THRESHOLD
            THEN /\ Len(out.text) >= Len(block)
                 /\ Suffix(out.text, Len(out.text) - Len(block)) = block
                 /\ \/ out.text = block /\ Strip(RemoveTags(in_text)) = <<>>
                    \/ /\ Len(out.text) >= Len(block) + 3
                       /\ out.text = body \o <<"\n", "\n">> \o block
                       /\ body = Strip(RemoveTags(in_text))
                       /\ TagStarts(body) = {}
                 /\ Len(inline) <= IG_MAX_HASHTAGS
                       => \A k \in 1..Len(inline) : InSeq(inline[k], out.tags)
            ELSE out.text = in_text

\* Instagram reflows a caption with a body and 12 different inline tags and
\* keeps all 12
C8_Witness ==
    /\ op = "hashtags"
    /\ platform = "instagram"
    /\ Len(FindAllTags(in_text)) = 12
    /\ Cardinality({FindAllTags(in_text)[k] : k \in 1..12}) = 12
    /\ Cardinality({out.tags[k] : k \in 1..Len(out.tags)}) >= 12
    /\ Strip(RemoveTags(in_text)) # <<>>
    /\ out.text # in_text

(***************************************************************************)
(* Properties of text adaptation, checked under Spec                      *)
(***************************************************************************)
\* a text item that carries its text payload
IsTextItem(it) == it.content_type = "text" /\ ~IsNone(it.text_content)

ItemText(it) == Get(it.text_content).text

ItemTags(it) == OrEmpty(Get(it.text_content).hashtags)

\* the length limit a platform puts on the text of a text item
TextLimit(p) ==
    IF p = "facebook" THEN FB_MAX_POST_LENGTH
    ELSE IF p = "instagram" THEN IG_MAX_CAPTION_LENGTH
    ELSE IF p = "linkedin" THEN LI_MAX_POST_LENGTH
    ELSE YT_MAX_DESCRIPTION_LENGTH

\* text within the platform's length limit, inline and explicit hashtags
\* within the platform's hashtag cap (YouTube reconciles no hashtags)
Compliant(it, p) ==
    /\ IsTextItem(it)
    /\ Len(ItemText(it)) <= TextLimit(p)
    /\ p # "youtube" =>
          /\ Len(FindAllTags(ItemText(it))) <= HashtagCap(p)
          /\ Len(ItemTags(it)) <= HashtagCap(p)

\* where the adapted text of a text item is in the returned content: the
\* text payload on Facebook and LinkedIn, the caption of the image payload
\* on Instagram, the description of the video payload on YouTube
AdaptedText(res, p) ==
    IF p = "instagram" THEN Get(Get(res.content.image_content).caption)
    ELSE IF p = "youtube" THEN Get(Get(res.content.video_content).description)
    ELSE Get(res.content.text_content).text

TextComesBack ==
    /\ result.outcome = "returned"
    /\ result.success = TRUE
    /\ AdaptedText(result, platform) = ItemText(item)

\* C9 as stated: on every platform, adapting a text item whose text is within
\* the length limit and whose hashtags are within the hashtag cap returns
\* the input text.
C9_CompliantTextUnchanged ==
    (op = "adapt" /\ Compliant(item, platform)) => TextComesBack

\* C9 as amended: the same, for a text that on Instagram carries no more
\* inline hashtags than the reflow threshold.
C9_CompliantUnreflowedTextUnchanged ==
    (/\ op = "adapt"
     /\ Compliant(item, platform)
     /\ platform = "instagram" => Len(FindAllTags(ItemText(item))) <= IG_REFLOW_THRESHOLD)
    => TextComesBack

\* Instagram hands back a caption with as many inline hashtags as the
\* threshold, and explicit tags besides, as it was
C9_Witness ==
    /\ op = "adapt"
    /\ platform = "instagram"
    /\ Compliant(item, platform)
    /\ Len(FindAllTags(ItemText(item))) = IG_REFLOW_THRESHOLD
    /\ ItemTags(item) # <<>>
    /\ TextComesBack

FacebookTextUnchanged ==
    /\ result.outcome = "returned"
    /\ result.success = TRUE
    /\ Get(result.content.text_content).text = ItemText(item)
    /\ result.metadata.is_within_limits = TRUE

\* C10 as stated: a text post no longer than MAX_POST_LENGTH, adapted for
\* Facebook, comes back with its text unchanged and is_within_limits true,
\* whatever hashtags it carries.
C10_FacebookTextUnchanged ==
    (/\ op = "adapt"
     /\ platform = "facebook"
     /\ IsTextItem(item)
     /\ Len(ItemText(item)) <= FB_MAX_POST_LENGTH)
    => FacebookTextUnchanged

\* C10 as amended: the same, for a post with at most MAX_HASHTAGS inline
\* hashtags, whatever explicit hashtags it carries.
C10_FacebookTextUnchangedUpToCap ==
    (/\ op = "adapt"
     /\ platform = "facebook"
     /\ IsTextItem(item)
     /\ Len(ItemText(item)) <= FB_MAX_POST_LENGTH
     /\ Len(FindAllTags(ItemText(item))) <= FB_MAX_HASHTAGS)
    => FacebookTextUnchanged

\* Facebook hands back a post with MAX_HASHTAGS inline hashtags and more
\* explicit tags than the cap as it was
C10_Witness ==
    /\ op = "adapt"
    /\ platform = "facebook"
    /\ IsTextItem(item)
    /\ Len(FindAllTags(ItemText(item))) = FB_MAX_HASHTAGS
    /\ Len(ItemTags(item)) > FB_MAX_HASHTAGS
    /\ FacebookTextUnchanged


(***************************************************************************)
(* PlatformAdapter (content/adapter.py) and the adaptation step of         *)
(* ContentGenerationPipeline.generate_content (content/generator.py).      *)
(* A raw content dictionary is a function from its keys to texts; a        *)
(* platform name is a text.                                                *)
(***************************************************************************)
Name_instagram == <<"i", "n", "s", "t", "a", "g", "r", "a", "m">>
Name_facebook == <<"f", "a", "c", "e", "b", "o", "o", "k">>
Name_linkedin == <<"l", "i", "n", "k", "e", "d", "i", "n">>
Name_youtube == <<"y", "o", "u", "t", "u", "b", "e">>

\* the keys of self.adapters after PlatformAdapter.__init__
RegisteredPlatforms == {Name_instagram, Name_facebook, Name_linkedin, Name_youtube}

\* a dictionary with one more key, or with the value of a key replaced
DictSet(d, key, value) ==
    [k \in DOMAIN d \cup {key} |-> IF k = key THEN value ELSE d[k]]

\* f"\nThis content has been generically adapted for {platform}."
GenericNotice(p) ==
    <<"\n", "T", "h", "i", "s", " ", "c", "o", "n", "t", "e", "n",
      "t", " ", "h", "a", "s", " ", "b", "e", "e", "n", " ", "g",
      "e", "n", "e", "r", "i", "c", "a", "l", "l", "y", " ", "a",
      "d", "a", "p", "t", "e", "d", " ", "f", "o", "r", " ">>
    \o p \o <<".">>

\* what a call on a raw content dictionary leaves behind: the caller's
\* dictionary after the call, and the value returned or the exception raised
DictReturned(c, value) ==
    [input |-> c, ret |-> [outcome |-> "returned", value |-> value, error |-> ""]]
DictRaised(c, error) ==
    [input |-> c, ret |-> [outcome |-> "raised", value |-> <<>>, error |-> error]]

\* _generic_adapt without the copy: the caller's dictionary is the one written
PA_generic_adapt_inPlace(c, p) ==
    LET labelled == DictSet(c, "platform", p)
        withNotes == IF "notes" \notin DOMAIN labelled
                     THEN DictSet(labelled, "notes", <<>>) ELSE labelled
        noted == DictSet(withNotes, "notes", withNotes["notes"] \o GenericNotice(p))
    IN  DictReturned(noted, noted)

\* PlatformAdapter._generic_adapt
PA_generic_adapt(c, p) ==
    LET adapted == c
        labelled == DictSet(adapted, "platform", p)
        withNotes == IF "notes" \notin DOMAIN labelled
                     THEN DictSet(labelled, "notes", <<>>) ELSE labelled
        noted == DictSet(withNotes, "notes", withNotes["notes"] \o GenericNotice(p))
    IN  DictReturned(c, noted)

\* PlatformAdapter.adapt_content.  self.adapters[platform].adapt is an
\* attribute that none of the four adapter classes defines: the lookup
\* raises AttributeError before anything is called.
PA_adapt_content(c, requested) ==
    LET p == LowerStr(requested)
    IN  IF p \notin RegisteredPlatforms
        THEN PA_generic_adapt(c, p)
        ELSE DictRaised(c, "AttributeError")

(***************************************************************************)
(* Specification of the adaptation step: generate_content loops over the   *)
(* requested platforms and stores each result under the requested name     *)
(***************************************************************************)
MaxPlatforms == 2

Name_tiktok == <<"t", "i", "k", "t", "o", "k">>
Name_TikTok == <<"T", "i", "k", "T", "o", "k">>
Name_Facebook == <<"F", "a", "c", "e", "b", "o", "o", "k">>

PlatformNames ==
    RegisteredPlatforms \cup {Name_tiktok, Name_TikTok, Name_Facebook}

PlatformLists == SeqsUpTo(PlatformNames, MaxPlatforms)

\* dictionaries _extract_results_from_chat can return
RawContents ==
    { <<>>,
      [error |-> <<"N", "o", " ", "c", "o", "n", "t", "e", "n", "t", " ", "g",
          "e", "n", "e", "r", "a", "t", "e", "d">>],
      [caption |-> <<"a", "b">>],
      [caption |-> <<"a", "b">>, notes |-> <<"n">>],
      [platform |-> <<"x">>, notes |-> <<>>] }

InitPipeline ==
    /\ op = "generate"
    /\ raw_content \in RawContents
    /\ platforms \in PlatformLists
    /\ adapted_content = <<>>
    /\ position = 0
    /\ platform = "none"
    /\ in_text = Unset
    /\ in_max = 0
    /\ in_title = Unset
    /\ in_tags = Unset
    /\ out = Unset
    /\ item = Unset
    /\ result = Unset
    /\ NoSchema /\ NoScorer /\ NoModeler

\* one iteration of the loop of generate_content
AdaptNextPlatform ==
    /\ op = "generate"
    /\ position < Len(platforms)
    /\ LET requested == platforms[position + 1]
           r == PA_adapt_content(raw_content, requested)
       IN  /\ raw_content' = r.input
           /\ IF r.ret.outcome = "returned"
              THEN /\ adapted_content' = DictSet(adapted_content, requested, r.ret.value)
                   /\ position' = position + 1
                   /\ op' = "generate"
              ELSE /\ op' = "raised"
                   /\ UNCHANGED <<adapted_content, position>>
    /\ UNCHANGED <<platforms, adapterVars, schemaVars, scorerVars, modelerVars>>

\* the loop is over: return adapted_content
FinishGenerate ==
    /\ op = "generate"
    /\ position = Len(platforms)
    /\ op' = "generated"
    /\ UNCHANGED <<pipelineVars, adapterVars, schemaVars, scorerVars, modelerVars>>

NextPipeline ==
    \/ AdaptNextPlatform
    \/ FinishGenerate

SpecPipeline == InitPipeline /\ [][NextPipeline]_vars


(***************************************************************************)
(* Properties of the adaptation step, checked under SpecPipeline           *)
(***************************************************************************)
\* the platforms the request names
Requested == {platforms[k] : k \in 1..Len(platforms)}

\* the value the generic fallback returns for a requested name
GenericResult(requested) ==
    PA_generic_adapt(raw_content, LowerStr(requested)).ret.value

\* C11: the adaptation step of generate_content returns a map (it does not
\* raise) that holds exactly one adaptation result per requested platform:
\* the registered adapter's result for instagram, facebook, linkedin and
\* youtube, and the generic fallback result for any other platform.
C11_OneResultPerPlatform ==
    /\ op # "raised"
    /\ op = "generated" =>
        /\ DOMAIN adapted_content = Requested
        /\ \A p \in Requested :
            IF LowerStr(p) \in RegisteredPlatforms
            THEN adapted_content[p] # GenericResult(p)
            ELSE adapted_content[p] = GenericResult(p)


\* the next iteration asks for a platform that has no registered adapter
GenericStep ==
    /\ op = "generate"
    /\ position < Len(platforms)
    /\ LowerStr(platforms[position + 1]) \notin RegisteredPlatforms

\* after differs from before only by its platform label and by a
\* disclaimer appended to its notes
OnlyLabelAndNotice(before, after, label) ==
    LET notes == IF "notes" \in DOMAIN before THEN before["notes"] ELSE <<>>
    IN  /\ DOMAIN after = DOMAIN before \cup {"platform", "notes"}
        /\ \A k \in DOMAIN before \ {"platform", "notes"} : after[k] = before[k]
        /\ after["platform"] = label
        /\ Len(after["notes"]) > Len(notes)
        /\ SubSeq(after["notes"], 1, Len(notes)) = notes

\* C12 as stated: adapt_content for a platform with no registered adapter
\* is never fatal; it returns a copy of the content whose only changes are
\* a platform label equal to the requested platform name and a disclaimer
\* appended to notes, and it leaves the input content unchanged.
C12_GenericFallback ==
    [][GenericStep =>
        LET requested == platforms[position + 1]
        IN  /\ op' = "generate"
            /\ requested \in DOMAIN adapted_content'
            /\ OnlyLabelAndNotice(raw_content, adapted_content'[requested], requested)
            /\ raw_content' = raw_content]_vars

\* C12 amended: the platform label is the requested platform name in
\* lower case; the rest of the claim stands.
C12_GenericFallbackLowerCased ==
    [][GenericStep =>
        LET requested == platforms[position + 1]
        IN  /\ op' = "generate"
            /\ requested \in DOMAIN adapted_content'
            /\ OnlyLabelAndNotice(raw_content, adapted_content'[requested],
                                  LowerStr(requested))
            /\ raw_content' = raw_content]_vars

\* a mixed-case name without an adapter went through the generic fallback,
\* on content that already had notes
C12_Witness ==
    /\ op = "generated"
    /\ Name_TikTok \in DOMAIN adapted_content
    /\ "notes" \in DOMAIN raw_content
    /\ Len(raw_content["notes"]) > 0
    /\ adapted_content[Name_TikTok]["platform"] = Name_tiktok


(***************************************************************************)
(* Properties of the conversions of adapt_content, checked under Spec      *)
(***************************************************************************)
\* the caption adapt_to_caption computes from a text payload
IG_CaptionOf(tc) ==
    IG_adapt_mentions(IG_adapt_hashtags(IG_adapt_caption_length(tc.text), tc.hashtags).text)

\* the returned item is Image-typed, captioned with the adapted text of the
\* input and carries the synthesized prompt and alt text
IG_ConvertedToImage ==
    /\ result.outcome = "returned"
    /\ result.success = TRUE
    /\ result.content.content_type = "image"
    /\ ~IsNone(result.content.image_content)
    /\ LET ic == Get(result.content.image_content)
       IN  /\ ic.caption = Some(IG_CaptionOf(Get(item.text_content)))
           /\ ic.prompt = IG_GenericPrompt
           /\ ic.alt_text = Some(IG_GenericAltText(item.brand_id))

\* C13 as stated: Instagram adaptation of any Text item with a text payload
\* yields an Image-typed item whose caption is the adapted text and whose
\* prompt and alt text are the synthesized generic values.
C13_TextBecomesImage ==
    (op = "adapt" /\ platform = "instagram" /\ IsTextItem(item))
        => IG_ConvertedToImage

\* C13 amended: the same for a Text item with a text payload and no image
\* payload.
C13_TextWithoutImageBecomesImage ==
    (op = "adapt" /\ platform = "instagram" /\ IsTextItem(item)
        /\ IsNone(item.image_content))
        => IG_ConvertedToImage

\* a text item without image payload, with a text that is changed on the
\* way (reflowed hashtags), was converted
C13_Witness ==
    /\ op = "adapt" /\ platform = "instagram" /\ IsTextItem(item)
    /\ IsNone(item.image_content)
    /\ IG_ConvertedToImage
    /\ Get(Get(result.content.image_content).caption) # ItemText(item)


\* the payloads of an item (or of the dictionary of an item) that are not None
PopulatedPayloads(it) ==
    {f \in {"text_content", "image_content", "video_content"} : ~IsNone(it[f])}

\* the payload field a content type asks for
MatchingPayload(t) ==
    IF t = "text" THEN {"text_content"}
    ELSE IF t = "image" THEN {"image_content"}
    ELSE IF t = "video" THEN {"video_content"}
    ELSE {}

\* C14: every ContentItem returned in a successful adaptation result, on
\* every platform and for every input content type (the Instagram
\* Text-to-Image and the YouTube Text-to-Video and Image-to-Video conversions
\* included), has exactly one populated payload, the one matching its
\* content_type.  Stated for inputs that themselves have exactly the payload
\* of their type.
C14_ExactlyOnePayload ==
    (/\ Returned
     /\ result.success = TRUE
     /\ PopulatedPayloads(item) = MatchingPayload(item.content_type))
        => /\ Cardinality(PopulatedPayloads(result.content)) = 1
           /\ PopulatedPayloads(result.content)
                  = MatchingPayload(result.content.content_type)


(***************************************************************************)
(* ContentItem construction (data/schemas.py).  The keyword arguments of   *)
(* the call are a function from the names supplied to their values; a      *)
(* payload argument is left out, None or a payload.  pydantic validates    *)
(* the fields in declaration order; a validator runs for the fields the    *)
(* call supplies and sees in values the fields validated before it, the    *)
(* omitted ones with their default.                                        *)
(***************************************************************************)
\* the fields validate_content_consistency is attached to, in field order
ValidatedFields == <<"content_type", "text_content", "image_content", "video_content">>

\* ContentItem.validate_content_consistency raises ValueError
ConsistencyError(values) ==
    LET content_type == IF "content_type" \in DOMAIN values
                        THEN values["content_type"] ELSE "none"
    IN  \/ content_type = "text" /\ "text_content" \notin DOMAIN values
        \/ content_type = "image" /\ "image_content" \notin DOMAIN values
        \/ content_type = "video" /\ "video_content" \notin DOMAIN values

\* the validation loop from field k on: the values validated so far and the
\* fields whose validator raised
RECURSIVE ValidateFrom(_, _, _, _)
ValidateFrom(kw, k, values, errors) ==
    IF k > Len(ValidatedFields) THEN [values |-> values, errors |-> errors]
    ELSE LET f == ValidatedFields[k]
         IN  IF f \notin DOMAIN kw
             THEN ValidateFrom(kw, k + 1, DictSet(values, f, None), errors)
             ELSE IF ConsistencyError(values)
             THEN ValidateFrom(kw, k + 1, values, errors \cup {f})
             ELSE ValidateFrom(kw, k + 1, DictSet(values, f, kw[f]), errors)

\* ContentItem(**kw): the item, or ValidationError
NewContentItem(kw) ==
    LET v == ValidateFrom(kw, 1, [brand_id |-> kw["brand_id"]], {})
    IN  IF v.errors # {}
        THEN [outcome |-> "raised", error |-> "ValidationError", item |-> None]
        ELSE [outcome |-> "returned", error |-> "",
              item |-> Some(ContentItem(v.values["brand_id"], v.values["content_type"],
                                        v.values["text_content"],
                                        v.values["image_content"],
                                        v.values["video_content"]))]

(***************************************************************************)
(* Specification of ContentItem construction: one constructor call         *)
(***************************************************************************)
ContentTypes == {"text", "image", "video", "carousel"}

\* the ways of passing the three payload arguments
PayloadArguments ==
    LET Args(f, payload) == {<<>>, [k \in {f} |-> None], [k \in {f} |-> Some(payload)]}
    IN  {[t |-> t, i |-> i, v |-> v] :
            t \in Args("text_content", SampleText),
            i \in Args("image_content", SampleImage),
            v \in Args("video_content", SampleVideo)}

\* the union of dictionaries with different keys
Merge(d, e) == [k \in DOMAIN d \cup DOMAIN e |-> IF k \in DOMAIN d THEN d[k] ELSE e[k]]

ConstructorCalls ==
    {Merge(Merge(Merge([brand_id |-> b, content_type |-> ct], a.t), a.i), a.v) :
        b \in {BrandId}, ct \in ContentTypes, a \in PayloadArguments}

InitConstruct ==
    /\ op = "none"
    /\ kwargs \in ConstructorCalls
    /\ constructed = Unset
    /\ platform = "none"
    /\ in_text = Unset
    /\ in_max = 0
    /\ in_title = Unset
    /\ in_tags = Unset
    /\ out = Unset
    /\ item = Unset
    /\ result = Unset
    /\ NoPipeline /\ NoScorer /\ NoModeler

Construct ==
    /\ op = "none"
    /\ op' = "construct"
    /\ constructed' = NewContentItem(kwargs)
    /\ UNCHANGED <<kwargs, adapterVars, pipelineVars, scorerVars, modelerVars>>

NextConstruct == Construct

SpecConstruct == InitConstruct /\ [][NextConstruct]_vars

(***************************************************************************)
(* Properties of ContentItem construction, checked under SpecConstruct     *)
(***************************************************************************)
\* the call passes the payload of the declared content type
MatchingPayloadSupplied(kw) ==
    \E f \in MatchingPayload(kw["content_type"]) : f \in DOMAIN kw /\ ~IsNone(kw[f])

\* C15: building an item whose content_type is Text, Image or Video succeeds
\* when the matching payload is supplied, and is rejected with a validation
\* error when the matching payload is not supplied.
C15_PayloadInvariantEnforced ==
    (op = "construct" /\ kwargs["content_type"] \in {"text", "image", "video"}) =>
        IF MatchingPayloadSupplied(kwargs)
        THEN constructed.outcome = "returned"
        ELSE constructed.outcome = "raised" /\ constructed.error = "ValidationError"


(***************************************************************************)
(* BrandStyleKeeper (brand/voice_keeper.py): the brand consistency scorer. *)
(* Scores are exact fractions n/d in lowest terms with d > 0; the code     *)
(* computes the same expressions in floating point.                        *)
(***************************************************************************)
RECURSIVE GCD(_, _)
GCD(a, b) == IF b = 0 THEN a ELSE GCD(b, a % b)

Frac(n, d) ==
    LET g == GCD(IF n < 0 THEN -n ELSE n, d)
    IN  [n |-> n \div g, d |-> d \div g]

Whole(k) == Frac(k, 1)
Zero == Whole(0)
One == Whole(1)
Half == Frac(1, 2)

FAdd(a, b) == Frac(a.n * b.d + b.n * a.d, a.d * b.d)
FSub(a, b) == Frac(a.n * b.d - b.n * a.d, a.d * b.d)
FMul(a, b) == Frac(a.n * b.n, a.d * b.d)
\* a / b for b > 0
FDiv(a, b) == Frac(a.n * b.d, a.d * b.n)
FLess(a, b) == a.n * b.d < b.n * a.d
FAbs(a) == IF a.n < 0 THEN [n |-> -a.n, d |-> a.d] ELSE a
FMin(a, b) == IF FLess(b, a) THEN b ELSE a
FMax(a, b) == IF FLess(a, b) THEN b ELSE a

\* s.count(sub): the occurrences that do not overlap, from the left
RECURSIVE CountFrom(_, _, _)
CountFrom(s, sub, i) ==
    LET at == {j \in i..(Len(s) - Len(sub) + 1) : SubSeq(s, j, j + Len(sub) - 1) = sub}
    IN  IF at = {} THEN 0 ELSE 1 + CountFrom(s, sub, SetMin(at) + Len(sub))

Count(s, sub) == CountFrom(s, sub, 1)

\* sum(content_lower.count(marker) for marker in markers)
RECURSIVE CountMarkers(_, _)
CountMarkers(s, markers) ==
    IF markers = <<>> THEN 0
    ELSE Count(s, markers[1]) + CountMarkers(s, Tail(markers))

\* nltk's tokenizers on texts made of words, blanks and the marks . ! ? ,
\* a sentence ends at a mark . ! ? that is followed by a blank or ends the
\* text; a token is a run of other characters or one mark
IsMark(c) == c \in {".", "!", "?", ","}
IsSentenceEnd(s, i) ==
    s[i] \in {".", "!", "?"} /\ (i = Len(s) \/ IsSpace(s[i + 1]))

sent_tokenize(s) ==
    LET body == Strip(s)
        ends == SortedSeq({i \in 1..Len(body) : IsSentenceEnd(body, i) \/ i = Len(body)})
        Start(k) == IF k = 1 THEN 1 ELSE ends[k - 1] + 1
    IN  [k \in 1..Len(ends) |-> Strip(SubSeq(body, Start(k), ends[k]))]

\* len(word_tokenize(s))
TokenCount(s) ==
    Cardinality({i \in 1..Len(s) :
        /\ ~IsSpace(s[i])
        /\ IsMark(s[i]) \/ i = 1 \/ IsSpace(s[i - 1]) \/ IsMark(s[i - 1])})

\* sum(len(word_tokenize(s)) for s in sentences)
RECURSIVE TokenTotal(_)
TokenTotal(sentences) ==
    IF sentences = <<>> THEN 0
    ELSE TokenCount(sentences[1]) + TokenTotal(Tail(sentences))

\* the average sentence length in tokens, 0 without sentences
AverageLength(sentences) ==
    IF sentences = <<>> THEN Zero ELSE Frac(TokenTotal(sentences), Len(sentences))

formal_markers ==
    <<<<"f", "u", "r", "t", "h", "e", "r", "m", "o", "r", "e">>,
      <<"t", "h", "e", "r", "e", "f", "o", "r", "e">>,
      <<"c", "o", "n", "s", "e", "q", "u", "e", "n", "t", "l", "y">>,
      <<"n", "e", "v", "e", "r", "t", "h", "e", "l", "e", "s", "s">>,
      <<"r", "e", "g", "a", "r", "d", "i", "n", "g">>,
      <<"a", "c", "c", "o", "r", "d", "i", "n", "g", "l", "y">>,
      <<"h", "e", "r", "e", "b", "y">>,
      <<"t", "h", "u", "s">>,
      <<"h", "e", "n", "c", "e">>,
      <<"w", "h", "e", "r", "e", "i", "n">>>>
informal_markers ==
    <<<<"a", "n", "y", "w", "a", "y">>,
      <<"w", "e", "l", "l">>,
      <<"y", "o", "u", " ", "k", "n", "o", "w">>,
      <<"k", "i", "n", "d", " ", "o", "f">>,
      <<"s", "o", "r", "t", " ", "o", "f">>,
      <<"l", "i", "k", "e">>,
      <<"s", "t", "u", "f", "f">>,
      <<"t", "h", "i", "n", "g">>,
      <<"o", "k", "a", "y">>,
      <<"O", "K">>,
      <<"g", "u", "y", "s">>,
      <<"p", "r", "e", "t", "t", "y">>,
      <<"r", "e", "a", "l", "l", "y">>,
      <<"g", "o", "n", "n", "a">>,
      <<"w", "a", "n", "n", "a">>>>
contractions ==
    <<<<"n", "'", "t">>,
      <<"'", "l", "l">>,
      <<"'", "r", "e">>,
      <<"'", "v", "e">>,
      <<"'", "m">>,
      <<"'", "d">>>>
professional_markers ==
    <<<<"a", "n", "a", "l", "y", "s", "i", "s">>,
      <<"r", "e", "s", "e", "a", "r", "c", "h">>,
      <<"d", "a", "t", "a">>,
      <<"m", "e", "t", "h", "o", "d", "o", "l", "o", "g", "y">>,
      <<"r", "e", "s", "u", "l", "t", "s">>,
      <<"i", "m", "p", "l", "e", "m", "e", "n", "t">>,
      <<"s", "t", "r", "a", "t", "e", "g", "y">>,
      <<"o", "b", "j", "e", "c", "t", "i", "v", "e">>,
      <<"c", "r", "i", "t", "e", "r", "i", "a">>,
      <<"e", "v", "a", "l", "u", "a", "t", "i", "o", "n">>>>
humor_markers ==
    <<<<"l", "a", "u", "g", "h">>,
      <<"f", "u", "n", "n", "y">>,
      <<"j", "o", "k", "e">>,
      <<"h", "u", "m", "o", "r">>,
      <<"w", "i", "t", "t", "y">>,
      <<"h", "a", "h", "a">>,
      <<"l", "o", "l">>,
      <<"s", "m", "i", "l", "e">>,
      <<"a", "m", "u", "s", "i", "n", "g">>,
      <<"h", "i", "l", "a", "r", "i", "o", "u", "s">>,
      <<"i", "r", "o", "n", "i", "c">>,
      <<"s", "a", "r", "c", "a", "s", "t", "i", "c">>,
      <<"p", "l", "a", "y", "f", "u", "l">>,
      <<"t", "e", "a", "s", "i", "n", "g">>>>
emotional_words ==
    <<<<"l", "o", "v", "e">>,
      <<"h", "a", "t", "e">>,
      <<"e", "x", "c", "i", "t", "e", "d">>,
      <<"t", "h", "r", "i", "l", "l", "e", "d">>,
      <<"a", "m", "a", "z", "i", "n", "g">>,
      <<"t", "e", "r", "r", "i", "b", "l", "e">>,
      <<"w", "o", "n", "d", "e", "r", "f", "u", "l">>,
      <<"a", "w", "f", "u", "l">>,
      <<"d", "e", "l", "i", "g", "h", "t", "e", "d">>,
      <<"d", "i", "s", "a", "p", "p", "o", "i", "n", "t", "e", "d">>,
      <<"h", "a", "p", "p", "y">>,
      <<"s", "a", "d">>,
      <<"a", "n", "g", "r", "y">>,
      <<"j", "o", "y", "f", "u", "l">>,
      <<"p", "r", "o", "u", "d">>,
      <<"a", "s", "h", "a", "m", "e", "d">>,
      <<"g", "r", "a", "t", "e", "f", "u", "l">>,
      <<"h", "u", "r", "t">>,
      <<"i", "n", "s", "p", "i", "r", "e", "d">>,
      <<"d", "e", "v", "a", "s", "t", "a", "t", "e", "d">>>>
filler_words ==
    <<<<"b", "a", "s", "i", "c", "a", "l", "l", "y">>,
      <<"a", "c", "t", "u", "a", "l", "l", "y">>,
      <<"l", "i", "t", "e", "r", "a", "l", "l", "y">>,
      <<"v", "i", "r", "t", "u", "a", "l", "l", "y">>,
      <<"d", "e", "f", "i", "n", "i", "t", "e", "l", "y">>,
      <<"c", "e", "r", "t", "a", "i", "n", "l", "y">>,
      <<"p", "r", "o", "b", "a", "b", "l", "y">>,
      <<"e", "s", "s", "e", "n", "t", "i", "a", "l", "l", "y">>,
      <<"t", "o", "t", "a", "l", "l", "y">>,
      <<"c", "o", "m", "p", "l", "e", "t", "e", "l", "y">>,
      <<"a", "b", "s", "o", "l", "u", "t", "e", "l", "y">>,
      <<"r", "e", "a", "l", "l", "y">>,
      <<"v", "e", "r", "y">>,
      <<"q", "u", "i", "t", "e">>,
      <<"s", "o", "m", "e", "w", "h", "a", "t">>,
      <<"r", "a", "t", "h", "e", "r">>>>
indirect_markers ==
    <<<<"p", "e", "r", "h", "a", "p", "s">>,
      <<"m", "a", "y", "b", "e">>,
      <<"m", "i", "g", "h", "t">>,
      <<"c", "o", "u", "l", "d">>,
      <<"p", "o", "s", "s", "i", "b", "l", "y">>,
      <<"p", "o", "t", "e", "n", "t", "i", "a", "l", "l", "y">>,
      <<"s", "e", "e", "m", "i", "n", "g", "l", "y">>,
      <<"a", "p", "p", "e", "a", "r", "s", " ", "t", "o">>,
      <<"i", "t", " ", "s", "e", "e", "m", "s">>,
      <<"s", "o", "m", "e", "w", "h", "a", "t">>,
      <<"r", "a", "t", "h", "e", "r">>,
      <<"i", "n", " ", "a", " ", "s", "e", "n", "s", "e">>,
      <<"f", "r", "o", "m", " ", "a", " ", "c", "e", "r", "t", "a", "i", "n", " ", "p", "e", "r", "s", "p", "e", "c", "t", "i", "v", "e">>,
      <<"o", "n", "e", " ", "m", "i", "g", "h", "t", " ", "s", "a", "y">>>>
direct_markers ==
    <<<<"d", "e", "f", "i", "n", "i", "t", "e", "l", "y">>,
      <<"a", "b", "s", "o", "l", "u", "t", "e", "l", "y">>,
      <<"c", "e", "r", "t", "a", "i", "n", "l", "y">>,
      <<"c", "l", "e", "a", "r", "l", "y">>,
      <<"o", "b", "v", "i", "o", "u", "s", "l", "y">>,
      <<"w", "i", "t", "h", "o", "u", "t", " ", "d", "o", "u", "b", "t">>,
      <<"m", "u", "s", "t">>,
      <<"a", "l", "w", "a", "y", "s">>,
      <<"n", "e", "v", "e", "r">>,
      <<"u", "n", "d", "o", "u", "b", "t", "e", "d", "l", "y">>>>

BSK_evaluate_formality(content) ==
    LET content_lower == LowerStr(content)
        formal_count == CountMarkers(content_lower, formal_markers)
        informal_count == CountMarkers(content_lower, informal_markers)
                          + CountMarkers(content_lower, contractions)
    IN  IF formal_count + informal_count = 0 THEN Half
        ELSE LET formality_score == Frac(formal_count, formal_count + informal_count)
                 avg_length == AverageLength(sent_tokenize(content))
                 length_factor == FMin(One, FDiv(avg_length, Whole(20)))
             IN  FAdd(FMul(Frac(7, 10), formality_score),
                      FMul(Frac(3, 10), length_factor))

BSK_evaluate_professionalism(content) ==
    LET content_lower == LowerStr(content)
        marker_count == CountMarkers(content_lower, professional_markers)
        word_count == TokenCount(content_lower)
    IN  IF word_count = 0 THEN Zero
        ELSE FMin(One, FMul(Frac(marker_count, word_count), Whole(20)))

BSK_evaluate_humor(content) ==
    LET exclamations == Count(content, <<"!">>)
        questions == Count(content, <<"?">>)
        marker_count == CountMarkers(LowerStr(content), humor_markers)
    IN  FMin(One, FAdd(FAdd(Frac(3 * marker_count, 10), Frac(exclamations, 10)),
                       Frac(5 * questions, 100)))

BSK_evaluate_emotion(content) ==
    LET content_lower == LowerStr(content)
        exclamations == Count(content, <<"!">>)
        emotion_count == CountMarkers(content_lower, emotional_words)
        word_count == TokenCount(content_lower)
    IN  IF word_count = 0 THEN Zero
        ELSE FMin(One, FAdd(FMul(Frac(emotion_count, word_count), Whole(15)),
                            Frac(exclamations, 10)))

BSK_evaluate_conciseness(content) ==
    LET sentences == sent_tokenize(content)
    IN  IF sentences = <<>> THEN Zero
        ELSE LET avg_length == AverageLength(sentences)
                 filler_count == CountMarkers(LowerStr(content), filler_words)
                 length_factor == FMax(Zero, FSub(One, FDiv(avg_length, Whole(20))))
                 filler_factor == FMax(Zero, FSub(One, Frac(filler_count, 10)))
             IN  FAdd(FMul(Frac(7, 10), length_factor),
                      FMul(Frac(3, 10), filler_factor))

BSK_evaluate_directness(content) ==
    LET content_lower == LowerStr(content)
        sentences == sent_tokenize(content)
        question_count ==
            Cardinality({k \in 1..Len(sentences) : EndsWith(Strip(sentences[k]), <<"?">>)})
        question_ratio == IF sentences = <<>> THEN Zero
                          ELSE Frac(question_count, Len(sentences))
        indirect_count == CountMarkers(content_lower, indirect_markers)
        direct_count == CountMarkers(content_lower, direct_markers)
        total_markers == indirect_count + direct_count
        marker_score == IF total_markers = 0 THEN Half
                        ELSE Frac(direct_count, total_markers)
    IN  FMul(marker_score, FSub(One, FMul(question_ratio, Half)))


\* the attribute names _evaluate_attribute and _check_sentence_length know
FormalNames == {<<"u6b63", "u5f0f">>, <<"f", "o", "r", "m", "a", "l">>}
ProfessionalNames == {<<"u5c08", "u696d">>, <<"p", "r", "o", "f", "e", "s", "s", "i", "o", "n", "a", "l">>}
HumorousNames == {<<"u5e7d", "u9ed8">>, <<"h", "u", "m", "o", "r", "o", "u", "s">>}
EmotionalNames == {<<"u60c5", "u611f">>, <<"e", "m", "o", "t", "i", "o", "n", "a", "l">>}
ConciseNames == {<<"u7c21", "u6f54">>, <<"c", "o", "n", "c", "i", "s", "e">>}
DirectNames == {<<"u76f4", "u63a5">>, <<"d", "i", "r", "e", "c", "t">>}
ShortLengthNames == {<<"u7c21", "u6f54">>, <<"u7c21", "u77ed">>, <<"c", "o", "n", "c", "i", "s", "e">>, <<"b", "r", "i", "e", "f">>}
LongLengthNames == {<<"u8a73", "u7d30">>, <<"u8a73", "u76e1">>, <<"d", "e", "t", "a", "i", "l", "e", "d">>, <<"e", "l", "a", "b", "o", "r", "a", "t", "e">>}

\* the names that have an evaluator
EvaluatedNames ==
    FormalNames \cup ProfessionalNames \cup HumorousNames
    \cup EmotionalNames \cup ConciseNames \cup DirectNames

\* the if/elif chain of _evaluate_attribute: the measure of the evaluator
\* the name selects, 0.5 for a name without evaluator
Measure(content, attribute_lower) ==
    IF attribute_lower \in FormalNames THEN BSK_evaluate_formality(content)
    ELSE IF attribute_lower \in ProfessionalNames
    THEN BSK_evaluate_professionalism(content)
    ELSE IF attribute_lower \in HumorousNames THEN BSK_evaluate_humor(content)
    ELSE IF attribute_lower \in EmotionalNames THEN BSK_evaluate_emotion(content)
    ELSE IF attribute_lower \in ConciseNames THEN BSK_evaluate_conciseness(content)
    ELSE IF attribute_lower \in DirectNames THEN BSK_evaluate_directness(content)
    ELSE Half

\* the advice chosen next to the measure, and the closeness
\* 1 - |measure - target| that is the attribute's score
Closeness(attribute, target_value, score) ==
    [score |-> FMax(Zero, FSub(One, FAbs(FSub(score, target_value)))),
     suggestion |->
         [about |-> attribute,
          advice |-> IF LowerStr(attribute) \notin EvaluatedNames THEN "adjust"
                     ELSE IF FLess(score, target_value) THEN "more"
                     ELSE "less"]]

\* BrandStyleKeeper._evaluate_attribute
BSK_evaluate_attribute(content, attribute, target_value) ==
    Closeness(attribute, target_value, Measure(content, LowerStr(attribute)))

\* [k for k in keywords if k.lower() in content.lower()], or its complement
RECURSIVE KeywordsWhere(_, _, _)
KeywordsWhere(keywords, content_lower, found) ==
    IF keywords = <<>> THEN <<>>
    ELSE IF Contains(content_lower, LowerStr(keywords[1])) = found
    THEN <<keywords[1]>> \o KeywordsWhere(Tail(keywords), content_lower, found)
    ELSE KeywordsWhere(Tail(keywords), content_lower, found)

\* the score and the details _check_keywords returns
KeywordResult(keywords, found_keywords, missing_keywords) ==
    [score |-> Frac(Len(found_keywords), Len(keywords)),
     details |-> [found_keywords |-> found_keywords,
                  missing_keywords |-> missing_keywords,
                  coverage |-> <<Len(found_keywords), Len(keywords)>>]]

\* BrandStyleKeeper._check_keywords
BSK_check_keywords(bm, content) ==
    IF IsNone(bm) \/ Get(bm).keywords = <<>>
    THEN [score |-> One, details |-> [status |-> "no keywords"]]
    ELSE KeywordResult(Get(bm).keywords,
                       KeywordsWhere(Get(bm).keywords, LowerStr(content), TRUE),
                       KeywordsWhere(Get(bm).keywords, LowerStr(content), FALSE))

\* the loop of _check_sentence_length over the style attributes: each
\* length-related attribute replaces the ideal length
RECURSIVE IdealLength(_, _)
IdealLength(style_attributes, ideal_length) ==
    IF style_attributes = <<>> THEN ideal_length
    ELSE IF LowerStr(style_attributes[1].name) \in ShortLengthNames
    THEN IdealLength(Tail(style_attributes),
             FAdd(FMul(Whole(10), FSub(One, style_attributes[1].value)), Whole(6)))
    ELSE IF LowerStr(style_attributes[1].name) \in LongLengthNames
    THEN IdealLength(Tail(style_attributes),
             FAdd(Whole(15), FMul(Whole(10), style_attributes[1].value)))
    ELSE IdealLength(Tail(style_attributes), ideal_length)

\* lengths = [len(word_tokenize(s)) for s in sentences]
Lengths(sentences) == [k \in 1..Len(sentences) |-> TokenCount(sentences[k])]

\* _check_sentence_length scoring 1 - deviation without the max(0, ...)
LengthResult_unclamped(lengths, avg_length, ideal_length) ==
    [score |-> FSub(One, FDiv(FAbs(FSub(avg_length, ideal_length)), ideal_length)),
     details |-> [avg_length |-> avg_length,
                  ideal_length |-> ideal_length,
                  min_length |-> SetMin({lengths[k] : k \in 1..Len(lengths)}),
                  max_length |-> SetMax({lengths[k] : k \in 1..Len(lengths)}),
                  sentence_count |-> Len(lengths)]]

\* the score and the details _check_sentence_length returns
LengthResult(lengths, avg_length, ideal_length) ==
    [score |-> FMax(Zero, FSub(One, FDiv(FAbs(FSub(avg_length, ideal_length)),
                                         ideal_length))),
     details |-> [avg_length |-> avg_length,
                  ideal_length |-> ideal_length,
                  min_length |-> SetMin({lengths[k] : k \in 1..Len(lengths)}),
                  max_length |-> SetMax({lengths[k] : k \in 1..Len(lengths)}),
                  sentence_count |-> Len(lengths)]]

\* _check_sentence_length once the sentences are known
SentenceLengths(bm, sentences) ==
    IF sentences = <<>>
    THEN [score |-> Zero, details |-> [status |-> "no content"]]
    ELSE LengthResult(Lengths(sentences), AverageLength(sentences),
             IdealLength(IF IsNone(bm) THEN <<>> ELSE Get(bm).style_attributes,
                         Whole(15)))

\* BrandStyleKeeper._check_sentence_length
BSK_check_sentence_length(bm, content) == SentenceLengths(bm, sent_tokenize(content))

\* attributes[name] = entry on an insertion-ordered dictionary: a name that
\* is already a key keeps its place and takes the new entry
PutAttribute(attributes, entry) ==
    IF \E k \in 1..Len(attributes) : attributes[k].name = entry.name
    THEN [k \in 1..Len(attributes) |->
             IF attributes[k].name = entry.name THEN entry ELSE attributes[k]]
    ELSE Append(attributes, entry)

\* the entry of one attribute in the attributes dictionary
AttributeEntry(attr, e) ==
    [name |-> attr.name, target_value |-> attr.value,
     score |-> e.score, suggestion |-> e.suggestion]

\* what the loop of _check_style_attributes computes for each attribute
Evaluations(style_attributes, content) ==
    [k \in 1..Len(style_attributes) |->
        AttributeEntry(style_attributes[k],
            BSK_evaluate_attribute(content, style_attributes[k].name,
                                   style_attributes[k].value))]

\* the attributes dictionary after the first k iterations
RECURSIVE AttributesAfter(_, _)
AttributesAfter(evaluations, k) ==
    IF k = 0 THEN <<>>
    ELSE PutAttribute(AttributesAfter(evaluations, k - 1), evaluations[k])

\* total_score after the first k iterations
RECURSIVE TotalAfter(_, _)
TotalAfter(evaluations, k) ==
    IF k = 0 THEN Zero
    ELSE FAdd(TotalAfter(evaluations, k - 1), evaluations[k].score)

\* the score and the details _check_style_attributes returns
StyleResult(attributes, avg_score) ==
    [score |-> avg_score,
     details |-> [attributes |-> attributes, overall_score |-> avg_score]]

\* _check_style_attributes once every attribute is evaluated
StyleOf(evaluations) ==
    StyleResult(AttributesAfter(evaluations, Len(evaluations)),
                FDiv(TotalAfter(evaluations, Len(evaluations)),
                     Whole(Len(evaluations))))

\* BrandStyleKeeper._check_style_attributes
BSK_check_style_attributes(bm, content) ==
    IF IsNone(bm) \/ Get(bm).style_attributes = <<>>
    THEN [score |-> One, details |-> [status |-> "no style attributes"]]
    ELSE StyleOf(Evaluations(Get(bm).style_attributes, content))

\* a suggestion: the fixed sentence it is (kind), the names it lists or the
\* attribute it is about, and the evaluator's advice it quotes
Suggestion(kind, names, advice) == [kind |-> kind, names |-> names, advice |-> advice]

\* missing_keywords[:3]
FirstThree(l) == SubSeq(l, 1, IF Len(l) < 3 THEN Len(l) ELSE 3)

\* the keyword suggestion of check_consistency
KeywordSuggestions(bm, k) ==
    IF /\ FLess(k.score, Half)
       /\ Get(bm).keywords # <<>>
       /\ "missing_keywords" \in DOMAIN k.details
       /\ k.details.missing_keywords # <<>>
    THEN <<Suggestion("keywords", FirstThree(k.details.missing_keywords), "")>>
    ELSE <<>>

\* the sentence-length suggestion of check_consistency
LengthSuggestions(s) ==
    IF FLess(s.score, Half)
    THEN IF FLess(IF "ideal_length" \in DOMAIN s.details
                  THEN s.details.ideal_length ELSE Whole(15),
                  IF "avg_length" \in DOMAIN s.details
                  THEN s.details.avg_length ELSE Zero)
         THEN <<Suggestion("shorten", <<>>, "")>>
         ELSE <<Suggestion("lengthen", <<>>, "")>>
    ELSE <<>>

\* the attributes whose suggestion check_consistency emits, in order
RECURSIVE WeakAttributes(_)
WeakAttributes(attributes) ==
    IF attributes = <<>> THEN <<>>
    ELSE IF FLess(attributes[1].score, Frac(4, 10))
    THEN <<Suggestion("style", <<attributes[1].name>>, attributes[1].suggestion.advice)>>
         \o WeakAttributes(Tail(attributes))
    ELSE WeakAttributes(Tail(attributes))

\* the style suggestions of check_consistency
StyleSuggestions(st) ==
    IF FLess(st.score, Half) /\ "attributes" \in DOMAIN st.details
    THEN WeakAttributes(st.details.attributes)
    ELSE <<>>

\* the overall suggestion with the second test an if of its own instead of
\* an elif
OverallSuggestions_twoTests(total_score) ==
    (IF FLess(total_score, Frac(4, 10))
     THEN <<Suggestion("recreate", <<>>, "")>> ELSE <<>>)
    \o (IF FLess(total_score, Frac(7, 10))
        THEN <<Suggestion("revise", <<>>, "")>> ELSE <<>>)

\* the overall suggestion of check_consistency
OverallSuggestions(total_score) ==
    IF FLess(total_score, Frac(4, 10)) THEN <<Suggestion("recreate", <<>>, "")>>
    ELSE IF FLess(total_score, Frac(7, 10)) THEN <<Suggestion("revise", <<>>, "")>>
    ELSE <<>>

\* the weights of the sub-scores, with and without a language model
Weights(lm) ==
    IF IsNone(lm)
    THEN [keywords |-> Frac(4, 10), sentence_length |-> Frac(2, 10),
          style |-> Frac(4, 10), model |-> Zero]
    ELSE [keywords |-> Frac(2, 10), sentence_length |-> Frac(1, 10),
          style |-> Frac(3, 10), model |-> Frac(4, 10)]

\* total_score of check_consistency.  The scores are exact fractions; the
\* code adds binary floats, whose sum can differ from the fraction in the
\* last place (a total of exactly 2/5 can come out as 0.39999999999999997).
TotalScore(keyword_score, sentence_length_score, style_score, model_score, weights) ==
    FAdd(FAdd(FAdd(FMul(keyword_score, weights.keywords),
                   FMul(sentence_length_score, weights.sentence_length)),
              FMul(style_score, weights.style)),
         FMul(model_score, weights.model))

\* model_score of check_consistency
ModelScore(lm) == IF IsNone(lm) THEN Zero ELSE Get(lm).score

\* the dictionary check_consistency returns
Report(bm, lm, k, s, st, total_score) ==
    [outcome |-> "returned",
     consistency_score |-> total_score,
     suggestions |-> KeywordSuggestions(bm, k) \o LengthSuggestions(s)
                     \o StyleSuggestions(st) \o OverallSuggestions(total_score),
     details |-> [keywords |-> k.details, sentence_length |-> s.details,
                  style |-> st.details,
                  model_score |-> IF IsNone(lm) THEN None ELSE Some(ModelScore(lm))]]

\* check_consistency once the three checks are done
Scoring(bm, lm, k, s, st) ==
    Report(bm, lm, k, s, st,
           TotalScore(k.score, s.score, st.score, ModelScore(lm), Weights(lm)))

\* BrandStyleKeeper.check_consistency.  lm is the language model: None, or
\* an object that has a score_text method returning lm.score, or one that
\* has none (BrandLanguageModel defines none).
BSK_check_consistency(bm, lm, content) ==
    IF IsNone(bm)
    THEN [outcome |-> "returned",
          consistency_score |-> Zero,
          suggestions |-> <<Suggestion("brand_model", <<>>, "")>>,
          details |-> <<>>]
    ELSE IF ~IsNone(lm) /\ ~Get(lm).has_score_text
    THEN [outcome |-> "raised", error |-> "AttributeError"]
    ELSE Scoring(bm, lm, BSK_check_keywords(bm, content),
                 BSK_check_sentence_length(bm, content),
                 BSK_check_style_attributes(bm, content))

(***************************************************************************)
(* Specification of the scorer: a keeper is constructed without models,    *)
(* set_brand_model and set_language_model fill them in (once each here),   *)
(* and one check_consistency call scores a text                            *)
(***************************************************************************)
MaxAttributes == 2
MaxUnits == 2

Word_eco == <<"e", "c", "o">>
Word_green == <<"g", "r", "e", "e", "n">>

KeywordLists == {<<>>, <<Word_eco>>, <<Word_eco, Word_green>>}

\* a name for each evaluator, for each way of moving the ideal sentence
\* length ("concise", "Brief", "detailed"), and one no evaluator knows
AttributeNames ==
    {<<"f", "o", "r", "m", "a", "l">>, <<"p", "r", "o", "f", "e", "s", "s", "i", "o", "n", "a", "l">>, <<"h", "u", "m", "o", "r", "o", "u", "s">>,
     <<"e", "m", "o", "t", "i", "o", "n", "a", "l">>, <<"c", "o", "n", "c", "i", "s", "e">>, <<"d", "i", "r", "e", "c", "t">>,
     <<"B", "r", "i", "e", "f">>, <<"d", "e", "t", "a", "i", "l", "e", "d">>, <<"b", "o", "l", "d">>}

\* the names that are also tried in lists of several attributes
PairedNames ==
    {<<"h", "u", "m", "o", "r", "o", "u", "s">>, <<"c", "o", "n", "c", "i", "s", "e">>, <<"B", "r", "i", "e", "f">>,
     <<"d", "e", "t", "a", "i", "l", "e", "d">>, <<"b", "o", "l", "d">>}

\* BrandStyleAttribute.value is a float in [0, 1]
TargetValues == {Zero, Half, One}

StyleAttributes(names) == {[name |-> n, value |-> v] : n \in names, v \in TargetValues}

StyleLists ==
    SeqsUpTo(StyleAttributes(AttributeNames), 1)
    \cup SeqsUpTo(StyleAttributes(PairedNames), MaxAttributes)

BrandModels ==
    {[keywords |-> ks, style_attributes |-> as] : ks \in KeywordLists, as \in StyleLists}

\* a BrandLanguageModel (no score_text), or a scorer whose score_text
\* returns 0 or 1
LanguageModels ==
    {[has_score_text |-> FALSE, score |-> Zero],
     [has_score_text |-> TRUE, score |-> Zero],
     [has_score_text |-> TRUE, score |-> One]}

\* words with and without a closing mark
Units == {<<"E", "c", "o">>, <<"t", "h", "u", "s", ".">>, <<"r", "e", "a", "l", "l", "y", "!">>, <<"l", "o", "l", "?">>}

\* a sentence of n words "eco" and a full stop
LongSentence(n) == Join(<<" ">>, [k \in 1..n |-> Word_eco]) \o <<".">>

\* the token counts of the long sentences: the default ideal length, one
\* more, and more than half as much again
LongLengths == {15, 16, 24}

ScoredTexts ==
    {Join(<<" ">>, us) : us \in SeqsUpTo(Units, MaxUnits)}
    \cup {<<"d", "a", "t", "a", " ", "m", "u", "s", "t", " ", "l", "o", "v", "e", ".">>, <<"m", "a", "y", "b", "e", " ", "g", "r", "e", "e", "n", "?", " ", "h", "a", "h", "a", " ", "l", "o", "l", "!">>}
    \cup {LongSentence(n - 1) : n \in LongLengths}

InitScorer ==
    /\ op = "none"
    /\ brand_model = None
    /\ language_model = None
    /\ in_content = Unset
    /\ report = Unset
    /\ frame = Unset
    /\ platform = "none"
    /\ in_text = Unset
    /\ in_max = 0
    /\ in_title = Unset
    /\ in_tags = Unset
    /\ out = Unset
    /\ item = Unset
    /\ result = Unset
    /\ NoPipeline /\ NoSchema /\ NoModeler

\* BrandStyleKeeper.set_brand_model
SetBrandModel ==
    /\ op = "none"
    /\ IsNone(brand_model)
    /\ \E bm \in BrandModels : brand_model' = Some(bm)
    /\ UNCHANGED <<op, language_model, in_content, report, frame>>
    /\ UNCHANGED <<adapterVars, pipelineVars, schemaVars, modelerVars>>

\* BrandStyleKeeper.set_language_model
SetLanguageModel ==
    /\ op = "none"
    /\ IsNone(language_model)
    /\ \E lm \in LanguageModels : language_model' = Some(lm)
    /\ UNCHANGED <<op, brand_model, in_content, report, frame>>
    /\ UNCHANGED <<adapterVars, pipelineVars, schemaVars, modelerVars>>

\* BrandStyleKeeper.check_consistency
CheckConsistency ==
    /\ op = "none"
    /\ op' = "check"
    /\ \E text \in ScoredTexts :
        /\ in_content' = text
        /\ report' = BSK_check_consistency(brand_model, language_model, text)
    /\ UNCHANGED <<brand_model, language_model, frame>>
    /\ UNCHANGED <<adapterVars, pipelineVars, schemaVars, modelerVars>>

NextScorer ==
    \/ SetBrandModel
    \/ SetLanguageModel
    \/ CheckConsistency

SpecScorer == InitScorer /\ [][NextScorer]_vars

\* the call returned a report with a brand model set
Scored == op = "check" /\ report.outcome = "returned" /\ ~IsNone(brand_model)


(***************************************************************************)
(* The range of the scores                                                 *)
(***************************************************************************)

\* 0 <= f <= 1
InUnit(f) == ~FLess(f, Zero) /\ ~FLess(One, f)

\* C16: whatever the text and the brand model, without a language model or
\* with one whose score_text returns a score in [0,1], the consistency
\* score check_consistency returns lies in [0,1], and so do the keyword,
\* the sentence-length and the style sub-score it is the weighted sum of.
C16_ScoresInUnitInterval ==
    (op = "check" /\ report.outcome = "returned") =>
        /\ InUnit(report.consistency_score)
        /\ ~IsNone(brand_model) =>
            /\ InUnit(BSK_check_keywords(brand_model, in_content).score)
            /\ InUnit(BSK_check_sentence_length(brand_model, in_content).score)
            /\ InUnit(BSK_check_style_attributes(brand_model, in_content).score)

\* a language model is set and scores 1, the sentences are more than twice
\* the ideal length so that the sentence-length score is clamped to 0, and
\* the consistency score is strictly inside the interval
C16_Witness ==
    /\ Scored
    /\ ~IsNone(language_model) /\ Get(language_model).score = One
    /\ in_content # <<>>
    /\ BSK_check_sentence_length(brand_model, in_content).score = Zero
    /\ FLess(Zero, report.consistency_score)
    /\ FLess(report.consistency_score, One)


(***************************************************************************)
(* The keyword suggestion                                                  *)
(***************************************************************************)

\* the brand keywords that do not occur in the text, as a set
AbsentKeywords ==
    {Get(brand_model).keywords[k] : k \in
        {j \in 1..Len(Get(brand_model).keywords) :
            ~Contains(LowerStr(in_content), LowerStr(Get(brand_model).keywords[j]))}}

\* the suggestions of the report that name keywords
KeywordAdvice == SelectSeq(report.suggestions, LAMBDA g : g.kind = "keywords")

\* C17: with two brand keywords of which exactly one occurs in the text,
\* the keyword sub-score is 0.5, the missing-keyword list holds exactly the
\* absent keyword, and one suggestion names that absent keyword.
C17_OneOfTwoKeywords ==
    (/\ Scored
     /\ Len(Get(brand_model).keywords) = 2
     /\ Cardinality(AbsentKeywords) = 1) =>
        /\ BSK_check_keywords(brand_model, in_content).score = Half
        /\ \A w \in AbsentKeywords :
            /\ report.details.keywords.missing_keywords = <<w>>
            /\ KeywordAdvice = <<Suggestion("keywords", <<w>>, "")>>


(***************************************************************************)
(* The style suggestions                                                   *)
(***************************************************************************)

\* a suggestion of the report names the style attribute
NamedInSuggestion(name) ==
    \E k \in 1..Len(report.suggestions) :
        /\ report.suggestions[k].kind = "style"
        /\ report.suggestions[k].names = <<name>>

\* C18: every style attribute whose own score is below 0.4 gets a named
\* suggestion, whatever the scores of the other attributes.
C18_WeakAttributeNamed ==
    Scored =>
        \A k \in 1..Len(Get(brand_model).style_attributes) :
            LET attr == Get(brand_model).style_attributes[k]
            IN  FLess(BSK_evaluate_attribute(in_content, attr.name, attr.value).score,
                      Frac(4, 10))
                => NamedInSuggestion(attr.name)


(***************************************************************************)
(* The overall suggestion                                                  *)
(***************************************************************************)

\* the report holds a suggestion of this kind
Emits(kind) ==
    \E k \in 1..Len(report.suggestions) : report.suggestions[k].kind = kind

\* C19: with a brand model set, the recreate suggestion is emitted exactly
\* when the returned consistency score is below 0.4, the revise suggestion
\* exactly when it is at least 0.4 and below 0.7, neither at 0.7 or more,
\* and never both.
C19_OverallSuggestionByRange ==
    Scored =>
        /\ Emits("recreate") <=> FLess(report.consistency_score, Frac(4, 10))
        /\ Emits("revise") <=>
            /\ ~FLess(report.consistency_score, Frac(4, 10))
            /\ FLess(report.consistency_score, Frac(7, 10))
        /\ ~(Emits("recreate") /\ Emits("revise"))

\* a call whose score is below 0.4 and that advises to recreate, not to
\* revise, although other suggestions are emitted before it
C19_Witness ==
    /\ Scored
    /\ FLess(Zero, report.consistency_score)
    /\ FLess(report.consistency_score, Frac(4, 10))
    /\ Emits("recreate") /\ ~Emits("revise")
    /\ Len(report.suggestions) > 1


(***************************************************************************)
(* The ideal sentence length                                               *)
(***************************************************************************)

\* the lower-cased names of the brand model's style attributes
AttributeNamesLower ==
    {LowerStr(Get(brand_model).style_attributes[k].name) :
        k \in 1..Len(Get(brand_model).style_attributes)}

\* C20: the ideal sentence length the sentence-length score is measured
\* against is 15 without a length-related attribute, at most 15 when a
\* concise/brief attribute is present, and at least 15 when a
\* detailed/elaborate attribute is present.
C20_IdealLengthDirection ==
    (Scored /\ "ideal_length" \in DOMAIN report.details.sentence_length) =>
        LET ideal_length == report.details.sentence_length.ideal_length
        IN  /\ AttributeNamesLower \cap (ShortLengthNames \cup LongLengthNames) = {}
                => ideal_length = Whole(15)
            /\ AttributeNamesLower \cap ShortLengthNames # {}
                => ~FLess(Whole(15), ideal_length)
            /\ AttributeNamesLower \cap LongLengthNames # {}
                => ~FLess(ideal_length, Whole(15))


(***************************************************************************)
(* Properties of image adaptation, checked under Spec                      *)
(***************************************************************************)
\* an image item that carries its image payload was adapted in place
ImageAdaptedInPlace ==
    /\ op = "adapt"
    /\ platform \in {"facebook", "instagram", "linkedin"}
    /\ item.content_type = "image"
    /\ ~IsNone(item.image_content)
    /\ result.outcome = "returned"
    /\ result.success = TRUE

\* C25: on Facebook, Instagram and LinkedIn the adapted caption of an Image
\* item is never longer than the platform's maximum text length plus the
\* continuation marker.
C25_CaptionWithinLimit ==
    ImageAdaptedInPlace =>
        Len(OrEmpty(Get(result.content.image_content).caption))
            <= TextLimit(platform) + MarkerLen(platform)


(***************************************************************************)
(* The is_within_limits flag                                               *)
(***************************************************************************)
\* C28: for a Text item with a text payload adapted by Facebook, Instagram
\* or LinkedIn the returned metadata has is_within_limits = true.
C28_AdaptedTextWithinLimits ==
    (/\ op = "adapt"
     /\ platform \in {"facebook", "instagram", "linkedin"}
     /\ IsTextItem(item)
     /\ result.outcome = "returned"
     /\ result.success = TRUE) =>
        result.metadata.is_within_limits = TRUE


(***************************************************************************)
(* LinkedIn: posts and articles                                            *)
(***************************************************************************)
\* LinkedIn adapted a text item that carries its text payload
LinkedInTextAdapted ==
    /\ op = "adapt"
    /\ platform = "linkedin"
    /\ IsTextItem(item)
    /\ result.outcome = "returned"
    /\ result.success = TRUE

\* C29: every text LinkedIn classifies as a post has at most 1000
\* characters, so it is under MAX_POST_LENGTH and comes back untruncated;
\* a text of 3001 to 100000 characters is classified as an article and
\* comes back untruncated.
C29_PostTruncationUnreachable ==
    LinkedInTextAdapted =>
        /\ result.metadata.content_type = "post" =>
            /\ Len(ItemText(item)) <= LI_ARTICLE_CHARS
            /\ Len(ItemText(item)) <= LI_MAX_POST_LENGTH
            /\ AdaptedText(result, platform) = ItemText(item)
        /\ (/\ Len(ItemText(item)) > LI_MAX_POST_LENGTH
            /\ Len(ItemText(item)) <= LI_MAX_ARTICLE_LENGTH) =>
            /\ result.metadata.content_type = "article"
            /\ AdaptedText(result, platform) = ItemText(item)

\* a text of 3001 characters and fewer than 300 words, classified as an
\* article and returned whole
C29_Witness ==
    /\ LinkedInTextAdapted
    /\ Len(ItemText(item)) = LI_MAX_POST_LENGTH + 1
    /\ WordCount(ItemText(item)) <= LI_ARTICLE_WORDS
    /\ result.metadata.content_type = "article"
    /\ Len(AdaptedText(result, platform)) = LI_MAX_POST_LENGTH + 1


(***************************************************************************)
(* Idempotence of the hashtag reconciler, checked under SpecHashtags       *)
(***************************************************************************)
\* _adapt_hashtags of the platform
AdaptHashtagsOn(p, text, existing_hashtags) ==
    IF p = "facebook" THEN FB_adapt_hashtags(text, existing_hashtags)
    ELSE IF p = "instagram" THEN IG_adapt_hashtags(text, existing_hashtags)
    ELSE LI_adapt_hashtags(text, existing_hashtags)

\* C30: on Facebook, Instagram and LinkedIn, for tags made of word
\* characters, _adapt_hashtags applied to its own output (the returned
\* text with the returned tag list as explicit tags) returns that same
\* text and that same tag list.
C30_HashtagsIdempotent ==
    op = "hashtags" => AdaptHashtagsOn(platform, out.text, Some(out.tags)) = out

\* a first call that rewrote the text and took explicit tags into the list,
\* and whose output the second call leaves as it is
C30_Witness ==
    /\ op = "hashtags"
    /\ platform = "instagram"
    /\ out.text # in_text
    /\ Len(out.tags) > Len(FindAllTags(in_text))
    /\ AdaptHashtagsOn(platform, out.text, Some(out.tags)) = out


(***************************************************************************)
(* The priority of the cut points, checked under SpecTruncate              *)
(***************************************************************************)
\* the positions in the last 30% of the budget
Window == {i \in 1..in_max : 10 * i > 7 * in_max}

\* the positions in the window where a paragraph break starts, where a
\* sentence ends, and where white space stands
ParagraphBreaks ==
    {i \in Window : i < Len(in_text) /\ in_text[i] = "\n" /\ in_text[i + 1] = "\n"}
SentenceEnds == {i \in Window : in_text[i] \in SentencePunctuation}
WhiteSpaces == {i \in Window : IsSpace(in_text[i])}

\* the text kept up to position p, stripped, with a continuation marker
CutAt(p) ==
    \E m \in Markers(platform) \ {<<>>} : out = Strip(Prefix(in_text, p)) \o m

\* C26: when a text exceeds max_length, _truncate_text cuts within the last
\* 30% of the budget at a paragraph break if there is one, else after
\* sentence-ending punctuation if there is some, else at white space if
\* there is some; it strips the kept part and appends the continuation
\* marker.
C26_CutPointPriority ==
    (op = "truncate" /\ Len(in_text) > in_max) =>
        IF ParagraphBreaks # {} THEN \E i \in ParagraphBreaks : CutAt(i - 1)
        ELSE IF SentenceEnds # {} THEN \E i \in SentenceEnds : CutAt(i)
        ELSE IF WhiteSpaces # {} THEN \E i \in WhiteSpaces : CutAt(i - 1)
        ELSE TRUE

(***************************************************************************)
(* Specification of the tag extraction: one call of YouTube's              *)
(* _extract_tags on a description and a title                              *)
(***************************************************************************)
MaxLongTags == 17

TagTitles ==
    {<<>>,
     <<"B", "e", "s", "t", " ", "t", "i", "p", "s">>,
     <<"G", "u", "i", "d", "e", ":", " ", "t", "a", "g", "s", ",",
      " ", "T", "A", "G", "S", " ", "&", " ", "t", "a", "g", "s">>,
     <<"t", "o", "p", " ", "1", "0", " ", "t", "a", "g", "s", " ",
      "o", "f", " ", "a", "b", "c", "d", "e", "f", "g", "h", "i",
      "j", "k", "l", "m", "n", "o", "p", "q", "r", "s", "t", "u",
      "v", "w", "x", "y", "z", "a", "b", "c", "d", "e", "f", "g", "h">>,
     <<"a", " ", "b", "c", " ", "d", "e", "f">>}

TagPieces ==
    {<<"#", "t", "a", "g", "s">>,
     <<"#", "T", "a", "g", "s">>,
     <<"\"", "o", "n", "e", " ", "t", "w", "o", " ", "t", "h", "r",
      "e", "e", "\"">>,
     <<"*", "*", "o", "n", "e", " ", "t", "w", "o", " ", "t", "h",
      "r", "e", "e", "*", "*">>,
     <<"\"", "a", " ", "b", "\"">>,
     <<"*", "*", "x", " ", "y", " ", "z", " ", "w", " ", "v", "*", "*">>,
     <<"#", "a", "a", "a", "a", "a", "a", "a", "a", "a", "a", "a",
      "a", "a", "a", "a", "a", "a", "a", "a", "a", "a", "a", "a",
      "a", "a", "a", "a", "a", "a", "a", "a">>,
     <<"\"", "O", "n", "e", " ", "T", "w", "o", " ", "T", "h", "r",
      "e", "e", "\"">>,
     <<"*", "*", "u", "n", "c", "l", "o", "s", "e", "d">>,
     <<"\"", "\"">>,
     <<"#", "g", "u", "i", "d", "e">>}

\* MaxLongTags different hashtags of the greatest length a tag may have
LongTags == [k \in 1..MaxLongTags |-> Run("a", k) \o Run("b", YT_MAX_TAG_LENGTH - k)]

\* a description whose tags exceed the total budget: the long hashtags, a
\* repeated one, one that is too long, and two short ones
CrowdedText ==
    Join(<<" ">>, Hashed(LongTags \o <<LongTags[1], Run("c", YT_MAX_TAG_LENGTH + 1),
                                       <<"a", "b", "c">>, <<"c", "d">>>>))

TagDescriptions ==
    {Join(<<" ">>, <<a, b>>) : a \in TagPieces, b \in TagPieces} \cup {<<>>, CrowdedText}

InitTags ==
    /\ op = "none"
    /\ platform = "none"
    /\ in_text \in TagDescriptions
    /\ in_title \in TagTitles
    /\ in_max = 0
    /\ in_tags = Unset
    /\ out = Unset
    /\ item = Unset
    /\ result = Unset
    /\ NoPipeline /\ NoSchema /\ NoScorer /\ NoModeler

ExtractTags ==
    /\ op = "none"
    /\ op' = "extract_tags"
    /\ platform' = "youtube"
    /\ out' = YT_extract_tags(in_text, in_title)
    /\ UNCHANGED <<in_text, in_max, in_tags, in_title, item, result>>
    /\ UNCHANGED <<pipelineVars, schemaVars, scorerVars, modelerVars>>

NextTags == ExtractTags

SpecTags == InitTags /\ [][NextTags]_vars

\* sum(len(tag) + 1 for tag in tags)
RECURSIVE TagsLength(_)
TagsLength(tags) ==
    IF tags = <<>> THEN 0 ELSE Len(tags[1]) + 1 + TagsLength(Tail(tags))

NoDuplicates(tags) == \A i, j \in 1..Len(tags) : tags[i] = tags[j] => i = j

\* C24: the tag list returned by _extract_tags has no duplicate values, every
\* tag is at most MAX_TAG_LENGTH characters long, and the sum over the tags
\* of (length + 1) is at most MAX_TAGS
C24_TagListBounded ==
    op = "extract_tags" =>
        /\ NoDuplicates(out)
        /\ \A k \in 1..Len(out) : Len(out[k]) <= YT_MAX_TAG_LENGTH
        /\ TagsLength(out) <= YT_MAX_TAGS

\* a call whose candidates hold a duplicate and a tag that is too long, and
\* whose result fills the total budget exactly
C24_Witness ==
    /\ op = "extract_tags"
    /\ ~NoDuplicates(YT_tag_candidates(in_text, in_title))
    /\ \E k \in 1..Len(YT_tag_candidates(in_text, in_title)) :
           Len(YT_tag_candidates(in_text, in_title)[k]) > YT_MAX_TAG_LENGTH
    /\ TagsLength(out) = YT_MAX_TAGS
    /\ Len(out) < Len(YT_tag_candidates(in_text, in_title))

(***************************************************************************)
(* Properties of YouTube's video adaptation, checked under Spec            *)
(***************************************************************************)
\* YouTube adapted a video item that carries its video payload
YouTubeVideoAdapted ==
    /\ op = "adapt"
    /\ platform = "youtube"
    /\ item.content_type = "video"
    /\ ~IsNone(item.video_content)
    /\ result.outcome = "returned"
    /\ result.success = TRUE

\* C22: a Video item is classified 'shorts' for every duration_seconds value
\* d with d <= 60 and 'video' for every d > 60.
C22_ShortsByDuration ==
    (YouTubeVideoAdapted /\ ~IsNone(Get(item.video_content).duration_seconds)) =>
        LET d == Get(Get(item.video_content).duration_seconds)
        IN  /\ d <= YT_MAX_SHORTS_LENGTH_SECONDS => result.metadata.content_type = "shorts"
            /\ d > YT_MAX_SHORTS_LENGTH_SECONDS => result.metadata.content_type = "video"

\* the recommendations that are not about the title, the thumbnail, the
\* duration, the tags, the timestamps, the call to action or the links
LengthAdvisories(recommendations) ==
    {recommendations[k] : k \in 1..Len(recommendations)}
        \ {<<"improve title seo">>, <<"add thumbnail">>, <<"short even for shorts">>,
           <<"video short">>, <<"video long">>, <<"add tags">>, <<"more tags">>,
           <<"add timestamps">>, <<"add call to action">>, <<"add links">>,
           <<"title adjusted", Len(Get(item.video_content).title),
             result.metadata.title_length>>}

\* C23: the adaptation emits a distinct advisory for each description
\* condition: shorter than the minimum length, longer than the ideal length,
\* longer than the maximum length (a description over the maximum is over
\* the ideal too, so it gets two).
C23_DescriptionAdvisories ==
    YouTubeVideoAdapted =>
        LET n == Len(OrEmpty(Get(item.video_content).description))
            advisories == LengthAdvisories(result.metadata.recommendations)
        IN  /\ (0 < n /\ n < YT_MIN_DESCRIPTION_LENGTH) => advisories # {}
            /\ n > YT_OPTIMAL_DESCRIPTION_LENGTH => advisories # {}
            /\ n > YT_MAX_DESCRIPTION_LENGTH => Cardinality(advisories) >= 2

(***************************************************************************)
(* Specification of a scoring call on a shared keeper: check_consistency   *)
(* runs statement by statement and reads self.brand_model and              *)
(* self.language_model each time a statement names them, while other       *)
(* callers of the same keeper (the module-level brand_style_keeper) call   *)
(* set_brand_model and set_language_model.  Nothing in the class locks the *)
(* fields.  Each helper call is one step here, with one read of the field; *)
(* the code reads it several times inside a helper, so every run of this   *)
(* specification is a run of the code.                                     *)
(***************************************************************************)
SharedBrandModels ==
    {[keywords |-> <<Word_eco>>,
      style_attributes |-> <<[name |-> <<"f", "o", "r", "m", "a", "l">>, value |-> One]>>],
     [keywords |-> <<Word_green>>,
      style_attributes |-> <<[name |-> <<"h", "u", "m", "o", "r", "o", "u", "s">>, value |-> One]>>]}

SharedLanguageModels ==
    {[has_score_text |-> TRUE, score |-> Zero], [has_score_text |-> TRUE, score |-> One]}

SharedTexts ==
    {<<"E", "c", "o", " ", "t", "h", "u", "s", ".">>,
     <<"m", "a", "y", "b", "e", " ", "g", "r", "e", "e", "n", "?",
      " ", "h", "a", "h", "a", " ", "l", "o", "l", "!">>}

InitShared ==
    /\ op = "none"
    /\ brand_model \in {None} \cup {Some(bm) : bm \in SharedBrandModels}
    /\ language_model \in {None} \cup {Some(lm) : lm \in SharedLanguageModels}
    /\ in_content = Unset
    /\ report = Unset
    /\ frame = Unset
    /\ platform = "none"
    /\ in_text = Unset
    /\ in_max = 0
    /\ in_title = Unset
    /\ in_tags = Unset
    /\ out = Unset
    /\ item = Unset
    /\ result = Unset
    /\ NoPipeline /\ NoSchema /\ NoModeler

\* another caller's set_brand_model, at any moment
OtherSetsBrandModel ==
    /\ op \in {"none", "checking"}
    /\ \E bm \in SharedBrandModels : brand_model' = Some(bm)
    /\ brand_model' # brand_model
    /\ UNCHANGED <<op, language_model, in_content, report, frame>>
    /\ UNCHANGED <<adapterVars, pipelineVars, schemaVars, modelerVars>>

\* another caller's set_language_model, at any moment
OtherSetsLanguageModel ==
    /\ op \in {"none", "checking"}
    /\ \E lm \in SharedLanguageModels : language_model' = Some(lm)
    /\ language_model' # language_model
    /\ UNCHANGED <<op, brand_model, in_content, report, frame>>
    /\ UNCHANGED <<adapterVars, pipelineVars, schemaVars, modelerVars>>

\* a statement of the call in progress: it moves the frame and leaves the
\* keeper's fields alone
Statement(at, next) ==
    /\ op = "checking"
    /\ frame.pc = at
    /\ frame' = next
    /\ UNCHANGED <<op, brand_model, language_model, in_content, report>>
    /\ UNCHANGED <<adapterVars, pipelineVars, schemaVars, modelerVars>>

\* the call begins: `if not self.brand_model`
BeginCheck ==
    /\ op = "none"
    /\ \E text \in SharedTexts : in_content' = text
    /\ IF IsNone(brand_model)
       THEN /\ op' = "checked"
            /\ report' = BSK_check_consistency(None, language_model, in_content')
            /\ frame' = [pc |-> "returned"]
       ELSE /\ op' = "checking"
            /\ report' = report
            /\ frame' = [pc |-> "keywords"]
    /\ UNCHANGED <<brand_model, language_model>>
    /\ UNCHANGED <<adapterVars, pipelineVars, schemaVars, modelerVars>>

\* keyword_score, keyword_details = self._check_keywords(content)
StepKeywords ==
    Statement("keywords",
        [pc |-> "sentence_length",
         keywords |-> BSK_check_keywords(brand_model, in_content)])

\* sentence_length_score, ... = self._check_sentence_length(content)
StepSentenceLength ==
    Statement("sentence_length",
        [frame EXCEPT !.pc = "style"]
            @@ [sentence_length |-> BSK_check_sentence_length(brand_model, in_content)])

\* style_score, style_details = self._check_style_attributes(content)
StepStyle ==
    Statement("style",
        [frame EXCEPT !.pc = "model_score"]
            @@ [style |-> BSK_check_style_attributes(brand_model, in_content)])

\* if self.language_model: model_score = self.language_model.score_text(...)
StepModelScore ==
    Statement("model_score",
        [frame EXCEPT !.pc = "weights"] @@ [scored_by |-> language_model])

\* weights = {..., "model": 0.4 if self.language_model else 0.0}
StepWeights ==
    Statement("weights",
        [frame EXCEPT !.pc = "adjust"]
            @@ [weights |-> [keywords |-> Frac(2, 10), sentence_length |-> Frac(1, 10),
                             style |-> Frac(3, 10),
                             model |-> IF IsNone(language_model) THEN Zero
                                       ELSE Frac(4, 10)]])

\* if not self.language_model: the other three weights are raised
StepAdjust ==
    Statement("adjust",
        [frame EXCEPT !.pc = "suggestions",
                      !.weights = IF IsNone(language_model)
                                  THEN [@ EXCEPT !.keywords = Frac(4, 10),
                                                 !.sentence_length = Frac(2, 10),
                                                 !.style = Frac(4, 10)]
                                  ELSE @])

\* the total, the suggestions (`self.brand_model.keywords` is read for the
\* keyword suggestion) and the return
StepReturn ==
    /\ op = "checking"
    /\ frame.pc = "suggestions"
    /\ op' = "checked"
    /\ report' = Report(brand_model, frame.scored_by, frame.keywords,
                        frame.sentence_length, frame.style,
                        TotalScore(frame.keywords.score, frame.sentence_length.score,
                                   frame.style.score, ModelScore(frame.scored_by),
                                   frame.weights))
    /\ frame' = [pc |-> "returned"]
    /\ UNCHANGED <<brand_model, language_model, in_content>>
    /\ UNCHANGED <<adapterVars, pipelineVars, schemaVars, modelerVars>>

NextShared ==
    \/ OtherSetsBrandModel
    \/ OtherSetsLanguageModel
    \/ BeginCheck
    \/ StepKeywords
    \/ StepSentenceLength
    \/ StepStyle
    \/ StepModelScore
    \/ StepWeights
    \/ StepAdjust
    \/ StepReturn

SpecShared == InitShared /\ [][NextShared]_vars

\* the reports of a call that works on one brand model and one
\* language-model setting
SnapshotReports ==
    {BSK_check_consistency(bm, lm, in_content) :
        bm \in {None} \cup {Some(m) : m \in SharedBrandModels},
        lm \in {None} \cup {Some(m) : m \in SharedLanguageModels}}

\* C21: a scoring call works on one snapshot: whatever set_brand_model and
\* set_language_model calls interleave with it, its sub-scores, weights and
\* suggestions are those of a single BrandModel and a single language-model
\* setting.
C21_ScoringOnOneSnapshot ==
    op = "checked" => report \in SnapshotReports

(***************************************************************************)
(* BrandLanguageModel: the cache of brand models and the files behind it   *)
(***************************************************************************)
\* a file of models_dir: missing, present with a JSON document json.load
\* reads back as the model that was dumped, or present with content
\* json.load fails on
Absent == [exists |-> FALSE, document |-> None]
Corrupt == [exists |-> TRUE, document |-> None]
Stored(model) == [exists |-> TRUE, document |-> Some(model)]

\* BrandAnalyzer.analyze_brand_voice: the voice parameters are a function of
\* the content items, kept here as the items they were computed from
Analyze(content_items) == [analysed |-> content_items]

\* BrandLanguageModel._sanitize_filename
BLM_sanitize_filename(filename) ==
    LET Valid(c) == c \notin {"<", ">", ":", "\"", "/", "\\", "|", "?", "*"}
        kept == SelectSeq(filename, Valid)
    IN  LowerStr([k \in 1..Len(kept) |-> IF kept[k] = " " THEN "_" ELSE kept[k]])

\* self.brand_models[brand_name] = model
Cached(cache, brand_name, model) ==
    [k \in DOMAIN cache \cup {brand_name} |-> IF k = brand_name THEN model ELSE cache[k]]

\* BrandLanguageModel._save_brand_model.  The write can fail, and the
\* exception is only logged: open() refuses and the file stays as it was,
\* or json.dump stops after open() has emptied the file.
BLM_save_brand_model(fs, brand_name, model, outcome) ==
    IF outcome = "refused" THEN fs
    ELSE [fs EXCEPT ![BLM_sanitize_filename(brand_name)] =
             IF outcome = "written" THEN Stored(model) ELSE Corrupt]

\* BrandLanguageModel.get_brand_model without the look-up in the cache
BLM_get_brand_model_noCache(cache, fs, brand_name) ==
    LET file == fs[BLM_sanitize_filename(brand_name)]
    IN  IF file.exists /\ ~IsNone(file.document)
        THEN [returned |-> file.document,
              brand_models |-> Cached(cache, brand_name, Get(file.document)),
              read_file |-> TRUE]
        ELSE [returned |-> None, brand_models |-> cache, read_file |-> file.exists]

\* BrandLanguageModel.get_brand_model: the value returned (None, or a
\* model), the cache afterwards, and whether the file was opened
BLM_get_brand_model(cache, fs, brand_name) ==
    LET file == fs[BLM_sanitize_filename(brand_name)]
    IN  IF brand_name \in DOMAIN cache
        THEN [returned |-> Some(cache[brand_name]), brand_models |-> cache,
              read_file |-> FALSE]
        ELSE IF file.exists /\ ~IsNone(file.document)
        THEN [returned |-> file.document,
              brand_models |-> Cached(cache, brand_name, Get(file.document)),
              read_file |-> TRUE]
        ELSE [returned |-> None, brand_models |-> cache, read_file |-> file.exists]

\* BrandLanguageModel.create_brand_model
BLM_create_brand_model(cache, fs, brand_name, content_items, outcome) ==
    LET model == [brand_name |-> brand_name,
                  voice_parameters |-> Analyze(content_items),
                  content_examples |-> Prefix(content_items, 5)]
    IN  [returned |-> Some(model),
         files |-> BLM_save_brand_model(fs, brand_name, model, outcome),
         brand_models |-> Cached(cache, brand_name, model),
         read_file |-> FALSE]

\* BrandLanguageModel.update_brand_model
BLM_update_brand_model(cache, fs, brand_name, new_content_items, outcome) ==
    LET got == BLM_get_brand_model(cache, fs, brand_name)
    IN  IF IsNone(got.returned)
        THEN [BLM_create_brand_model(got.brand_models, fs, brand_name,
                                     new_content_items, outcome)
                 EXCEPT !.read_file = got.read_file]
        ELSE LET all_content == Get(got.returned).content_examples \o new_content_items
                 model == [Get(got.returned) EXCEPT
                              !.voice_parameters = Analyze(all_content),
                              !.content_examples = Prefix(all_content, 10)]
             IN  [returned |-> Some(model),
                  files |-> BLM_save_brand_model(fs, brand_name, model, outcome),
                  brand_models |-> Cached(got.brand_models, brand_name, model),
                  read_file |-> got.read_file]

(***************************************************************************)
(* Specification of one BrandLanguageModel instance: up to MaxCalls calls  *)
(* of create_brand_model, update_brand_model and get_brand_model on names  *)
(* that share files, over a directory another instance can write to        *)
(***************************************************************************)
MaxCalls == 4

\* "A b" and "a_b" are kept in the same file a_b.json
BrandNames == {<<"A", " ", "b">>, <<"a", "_", "b">>, <<"c", "?">>}

FileNames == {BLM_sanitize_filename(n) : n \in BrandNames}

ItemLists == {<<<<"x">>>>, [k \in 1..6 |-> <<"y">>]}

\* the model another session left in a file, or writes to it
ForeignModel(f) ==
    [brand_name |-> f, voice_parameters |-> Analyze(<<<<"z">>>>),
     content_examples |-> <<<<"z">>>>]

SaveOutcomes == {"written", "refused", "emptied"}

InitModeler ==
    /\ op = "none"
    /\ brand_models = <<>>
    /\ files \in [FileNames -> {Absent, Corrupt}]
    /\ call = [kind |-> "none", name |-> <<>>, returned |-> None,
               read_file |-> FALSE, count |-> 0]
    /\ platform = "none"
    /\ in_text = Unset
    /\ in_max = 0
    /\ in_title = Unset
    /\ in_tags = Unset
    /\ out = Unset
    /\ item = Unset
    /\ result = Unset
    /\ NoPipeline /\ NoSchema /\ NoScorer

\* a call on the instance, recorded in `call`
Called(kind, brand_name, r, fs) ==
    /\ call.count < MaxCalls
    /\ op' = "brand_model"
    /\ brand_models' = r.brand_models
    /\ files' = fs
    /\ call' = [kind |-> kind, name |-> brand_name, returned |-> r.returned,
                read_file |-> r.read_file, count |-> call.count + 1]
    /\ UNCHANGED <<adapterVars, pipelineVars, schemaVars, scorerVars>>

CreateBrandModel ==
    \E n \in BrandNames, items \in ItemLists, outcome \in SaveOutcomes :
        LET r == BLM_create_brand_model(brand_models, files, n, items, outcome)
        IN  Called("create", n, r, r.files)

UpdateBrandModel ==
    \E n \in BrandNames, items \in ItemLists, outcome \in SaveOutcomes :
        LET r == BLM_update_brand_model(brand_models, files, n, items, outcome)
        IN  Called("update", n, r, r.files)

GetBrandModel ==
    \E n \in BrandNames :
        Called("get", n, BLM_get_brand_model(brand_models, files, n), files)

\* another instance or session saves a model of its own in a file
OtherInstanceSaves ==
    /\ \E f \in FileNames :
        /\ files[f] # Stored(ForeignModel(f))
        /\ files' = [files EXCEPT ![f] = Stored(ForeignModel(f))]
    /\ UNCHANGED <<op, brand_models, call>>
    /\ UNCHANGED <<adapterVars, pipelineVars, schemaVars, scorerVars>>

NextModeler ==
    \/ CreateBrandModel
    \/ UpdateBrandModel
    \/ GetBrandModel
    \/ OtherInstanceSaves

SpecModeler == InitModeler /\ [][NextModeler]_vars

\* C27: per instance a brand model is loaded from its file at most once per
\* name: a name stays in the cache once it is there; get_brand_model of a
\* cached name returns the cached model and does not open the file; a model
\* get_brand_model returns is cached; create_brand_model and
\* update_brand_model cache the model they return, and nothing else changes
\* the cached model of a name, so get_brand_model returns the model most
\* recently created or updated for the name.
C27_LoadedOnceAndLatest ==
    [][/\ \A k \in DOMAIN brand_models : k \in DOMAIN brand_models'
       /\ (call' # call /\ call'.kind = "get" /\ call'.name \in DOMAIN brand_models) =>
              /\ ~call'.read_file
              /\ call'.returned = Some(brand_models[call'.name])
       /\ (call'.kind = "get" /\ ~IsNone(call'.returned)) =>
              /\ call'.name \in DOMAIN brand_models'
              /\ brand_models'[call'.name] = Get(call'.returned)
       /\ (call' # call /\ call'.kind \in {"create", "update"}) =>
              brand_models'[call'.name] = Get(call'.returned)
       /\ \A k \in DOMAIN brand_models :
              brand_models'[k] # brand_models[k] =>
                  call'.kind \in {"create", "update"} /\ call'.name = k
      ]_vars

\* a get_brand_model answered from the cache, without opening the file,
\* after the model was created or updated and while the file of the name
\* holds something else
C27_Witness ==
    /\ call.kind = "get"
    /\ call.count = MaxCalls
    /\ ~call.read_file
    /\ ~IsNone(call.returned)
    /\ Get(call.returned).brand_name = call.name
    /\ Len(Get(call.returned).content_examples) > 5
    /\ files[BLM_sanitize_filename(call.name)] # Stored(Get(call.returned))

====
